---- MODULE Spec2Model ----
(***************************************************************************)
(* Model of the purchase-bundle orchestrator executeStandardPTOperations   *)
(* (src/src/index.ts) running against the five record writers of           *)
(* src/src/db/index.ts and the RDS data service they call.                 *)
(*                                                                         *)
(* A string is a sequence of one-character strings, so that its length and *)
(* its characters are what the code's checks and conversions see.  An      *)
(* optional or nullable value v is <<v>>, and undefined / null is << >>.   *)
(***************************************************************************)
EXTENDS Integers, Sequences, FiniteSets, TLC

VARIABLES
    env,            \* process.env: the set of environment variables that are set
    pc,             \* per invocation: where executeStandardPTOperations stands
    input,          \* per invocation: the params it was invoked with
    paymentId,      \* per invocation: const paymentId (index.ts:55)
    ledgerEntries,  \* per invocation: const ledgerEntries (index.ts:45)
    idObj,          \* per invocation: const idObj (index.ts:48)
    pending,        \* per invocation: the writer awaiting its store call
    outcome,        \* per invocation: how the returned promise settled
    calls,          \* every call of a writer operation, in order
    returns,        \* every settlement of a writer's promise, in order
    store,          \* every request handed to RDS, in order
    gen,            \* a call of genId on its own: its argument and locals
    fmt             \* calls of formatDate on their own, and the clock

vars == <<env, pc, input, paymentId, ledgerEntries, idObj, pending, outcome,
          calls, returns, store, gen, fmt>>

----------------------------------------------------------------------------
(* Bounds of the model *)

\* genId may return this many different ids
NumGenIds == 2
\* amounts and promo amounts range over -1 .. MaxAmount
MaxAmount == 1
\* the clock is read at MockSec .. MockSec + MaxTick seconds
MaxTick == 1

----------------------------------------------------------------------------
(* Program constants *)

IdLength == 32
FedNow == 0
Card == 1
COMPLETE == 4
PENDING == 5

\* The invocations of executeStandardPTOperations the model follows.
Invocations == {1, 2}

----------------------------------------------------------------------------
(* Strings *)

Repeat(c, n) == [k \in 1..n |-> c]

HexDigits == <<"0", "1", "2", "3", "4", "5", "6", "7",
               "8", "9", "a", "b", "c", "d", "e", "f">>

IsHexChar(c) == c \in {HexDigits[k] : k \in 1..16}

HexValue(c) == (CHOOSE k \in 1..16 : HexDigits[k] = c) - 1

\* Number.prototype.toString(16) of an integer 0..15
ToString16(n) == HexDigits[n + 1]

\* The test fixtures' ids: 'a'.repeat(32) and so on.
PAYEE_ID == Repeat("a", IdLength)
PAYER_ID == Repeat("b", IdLength)
DEVELOPER_ID == Repeat("c", IdLength)
SQL_TRANSACTION_ID == Repeat("d", IdLength)
PAYER_ACCOUNT_ID == Repeat("e", IdLength)
PAYEE_ACCOUNT_ID == Repeat("f", IdLength)
\* 32 characters, none of them a hexadecimal digit
NON_HEX_ID == Repeat("g", IdLength)
INVALID == <<"i", "n", "v", "a", "l", "i", "d">>

Undefined == << >>
Null == << >>
Some(v) == <<v>>
IsPresent(o) == o # << >>
Get(o) == o[1]

\* Buffer.from(s, 'hex'): one byte for every leading pair of hexadecimal
\* digits; decoding stops at the first pair that is not one.
HexPairs(s) ==
    LET bad == {k \in 1..(Len(s) \div 2) :
                   ~IsHexChar(s[2 * k - 1]) \/ ~IsHexChar(s[2 * k])}
    IN  IF bad = {} THEN Len(s) \div 2
        ELSE (CHOOSE k \in bad : \A m \in bad : k <= m) - 1

BufferFromHex(s) ==
    [k \in 1..HexPairs(s) |-> 16 * HexValue(s[2 * k - 1]) + HexValue(s[2 * k])]

----------------------------------------------------------------------------
(* Validation (zod).  An issue names the path of the field and the code of *)
(* the violation; a schema reports the issues of all its fields, in the    *)
(* order the fields are declared.                                          *)

Issue(path, code) == [path |-> path, code |-> code]

\* z.string().length(32)
StringLength32(path, s) ==
    IF Len(s) > IdLength THEN <<Issue(path, "too_big")>>
    ELSE IF Len(s) < IdLength THEN <<Issue(path, "too_small")>>
    ELSE << >>

\* z.string()
AnyString(path, s) == << >>

\* z.string().length(32).optional()
OptionalStringLength32(path, o) ==
    IF IsPresent(o) THEN StringLength32(path, Get(o)) ELSE << >>

\* z.number().nonnegative()
NonNegative(path, n) ==
    IF n < 0 THEN <<Issue(path, "too_small")>> ELSE << >>

\* z.number()
AnyNumber(path, n) == << >>

\* z.number().nonnegative().optional()
OptionalNonNegative(path, o) ==
    IF IsPresent(o) THEN NonNegative(path, Get(o)) ELSE << >>

\* z.nativeEnum(PaymentMethod)
NativeEnumPaymentMethod(path, m) ==
    IF m \in {FedNow, Card} THEN << >>
    ELSE <<Issue(path, "invalid_enum_value")>>

\* Mutant: the bundle's schema asks only that amount be a number.
UserPurchaseInformationSchemaAnyAmount(path, u) ==
    StringLength32(path \o <<"payeeId">>, u.payeeId)
    \o StringLength32(path \o <<"payerId">>, u.payerId)
    \o OptionalStringLength32(path \o <<"payerAccountId">>, u.payerAccountId)
    \o OptionalStringLength32(path \o <<"payeeAccountId">>, u.payeeAccountId)
    \o StringLength32(path \o <<"developerId">>, u.developerId)
    \o NativeEnumPaymentMethod(path \o <<"paymentMethod">>, u.paymentMethod)

UserPurchaseInformationSchema(path, u) ==
    StringLength32(path \o <<"payeeId">>, u.payeeId)
    \o StringLength32(path \o <<"payerId">>, u.payerId)
    \o OptionalStringLength32(path \o <<"payerAccountId">>, u.payerAccountId)
    \o OptionalStringLength32(path \o <<"payeeAccountId">>, u.payeeAccountId)
    \o StringLength32(path \o <<"developerId">>, u.developerId)
    \o NonNegative(path \o <<"amount">>, u.amount)
    \o AnyNumber(path \o <<"interactionTypeId">>, u.interactionTypeId)
    \o NativeEnumPaymentMethod(path \o <<"paymentMethod">>, u.paymentMethod)

PromotionInformationSchema(path, p) ==
    OptionalNonNegative(path \o <<"promoAmount">>, p.promoAmount)

\* Mutant: the promotion information is left out of the bundle's shape.
SchemaWithoutPromotion(params) ==
    UserPurchaseInformationSchema(<<"userPurchaseInformation">>,
                                  params.userPurchaseInformation)
    \o StringLength32(<<"sqlTransactionId">>, params.sqlTransactionId)

ExecuteStandardPTOperationsParamsSchema(params) ==
    UserPurchaseInformationSchema(<<"userPurchaseInformation">>,
                                  params.userPurchaseInformation)
    \o PromotionInformationSchema(<<"promotionInformation">>,
                                  params.promotionInformation)
    \o StringLength32(<<"sqlTransactionId">>, params.sqlTransactionId)

\* Mutant: parsing stops at the first field that fails.
InsertPaymentParamsSchemaFirstOnly(p) ==
    SubSeq(StringLength32(<<"payerId">>, p.payerId)
           \o StringLength32(<<"payeeId">>, p.payeeId)
           \o StringLength32(<<"developerId">>, p.developerId)
           \o NonNegative(<<"amount">>, p.amount)
           \o NativeEnumPaymentMethod(<<"paymentMethod">>, p.paymentMethod)
           \o StringLength32(<<"sqlTransactionId">>, p.sqlTransactionId),
           1, 1)

InsertPaymentParamsSchema(p) ==
    StringLength32(<<"payerId">>, p.payerId)
    \o StringLength32(<<"payeeId">>, p.payeeId)
    \o StringLength32(<<"developerId">>, p.developerId)
    \o NonNegative(<<"amount">>, p.amount)
    \o AnyNumber(<<"interactionTypeId">>, p.interactionTypeId)
    \o NativeEnumPaymentMethod(<<"paymentMethod">>, p.paymentMethod)
    \o StringLength32(<<"sqlTransactionId">>, p.sqlTransactionId)

InsertFedNowPaymentParamsSchema(p) ==
    StringLength32(<<"paymentId">>, p.paymentId)
    \o StringLength32(<<"payerAccountId">>, p.payerAccountId)
    \o StringLength32(<<"payeeAccountId">>, p.payeeAccountId)
    \o StringLength32(<<"sqlTransactionId">>, p.sqlTransactionId)

\* Mutant: the ledger entry's schema declares amount and sqlTransactionId
\* as the other writers' schemas do.
InsertLedgerEntryParamsSchemaStrict(p) ==
    StringLength32(<<"payerId">>, p.payerId)
    \o StringLength32(<<"payeeId">>, p.payeeId)
    \o StringLength32(<<"developerId">>, p.developerId)
    \o NonNegative(<<"amount">>, p.amount)
    \o AnyNumber(<<"interactionTypeId">>, p.interactionTypeId)
    \o StringLength32(<<"sqlTransactionId">>, p.sqlTransactionId)

InsertLedgerEntryParamsSchema(p) ==
    StringLength32(<<"payerId">>, p.payerId)
    \o StringLength32(<<"payeeId">>, p.payeeId)
    \o StringLength32(<<"developerId">>, p.developerId)
    \o AnyNumber(<<"amount">>, p.amount)
    \o AnyNumber(<<"interactionTypeId">>, p.interactionTypeId)
    \o AnyString(<<"sqlTransactionId">>, p.sqlTransactionId)

InsertPromotionLedgerEntryParamsSchema(p) ==
    StringLength32(<<"developerId">>, p.developerId)
    \o StringLength32(<<"payerId">>, p.payerId)
    \o StringLength32(<<"payeeId">>, p.payeeId)
    \o NonNegative(<<"promoAmount">>, p.promoAmount)
    \o AnyNumber(<<"interactionTypeId">>, p.interactionTypeId)
    \o StringLength32(<<"sqlTransactionId">>, p.sqlTransactionId)

\* Mutant: z.array(z.string()), an empty list passing
AnyStringArray(path, a) == << >>

\* z.array(z.string()).nonempty()
NonEmptyStringArray(path, a) ==
    IF Len(a) < 1 THEN <<Issue(path, "too_small")>> ELSE << >>

InsertTransactionRecordParamsSchema(p) ==
    NonEmptyStringArray(<<"ledgerEntries">>, p.ledgerEntries)
    \o StringLength32(<<"sqlTransactionId">>, p.sqlTransactionId)

----------------------------------------------------------------------------
(* Helpers (src/src/types/index.ts) *)

EnvValue(name) ==
    CASE name = "DATABASE" -> "mock-database"
      [] name = "SECRET_ARN" -> "mock-secret-arn"
      [] name = "CLUSTER_ARN" -> "mock-cluster-arn"

NoError == [name |-> "", message |-> "", issues |-> << >>]
ZodError(issues) == [name |-> "ZodError", message |-> "", issues |-> issues]
Error(message) == [name |-> "Error", message |-> message, issues |-> << >>]

\* Mutant: a variable that is not set reads as the empty string.
getEnvVariableOrEmpty(name) ==
    [threw |-> FALSE, error |-> NoError,
     value |-> IF name \in env THEN EnvValue(name) ELSE ""]

\* getEnvVariable(name): the value, or the error it throws
getEnvVariable(name) ==
    IF name \notin env
    THEN [threw |-> TRUE,
          error |-> Error("Environment variable " \o name \o " not set"),
          value |-> ""]
    ELSE [threw |-> FALSE, error |-> NoError, value |-> EnvValue(name)]

\* genId(length), given the digits Math.floor(Math.random() * 16) yields
genId(length, random) ==
    [k \in 1..length |-> ToString16(random[k])]

\* genId(length) not called on its own: no argument, nothing generated
NoGen ==
    [length |-> 0, i |-> 0, result |-> << >>, random |-> << >>,
     returned |-> << >>]

\* The runs of Math.random the model draws from: one digit, repeated.
RandomRuns(length) == {Repeat(d, length) : d \in 1..NumGenIds}

\* A Date is [sec |-> seconds since the epoch, ms |-> milliseconds 0..999].
\* new Date('2023-12-28T20:49:19.559Z'), the date the writers' tests mock
MockSec == 1703796559
MockMs == 559
Clock == {[sec |-> MockSec + k, ms |-> MockMs] : k \in 0..MaxTick}

Pad(n, width) ==
    LET p10(e) == IF e = 0 THEN 1 ELSE IF e = 1 THEN 10
                  ELSE IF e = 2 THEN 100 ELSE 1000
    IN  [k \in 1..width |-> ToString16((n \div p10(width - k)) % 10)]

\* Date.prototype.toISOString: YYYY-MM-DDTHH:MM:SS.mmmZ (UTC)
ToISOString(date) ==
    LET days == date.sec \div 86400
        rem == date.sec % 86400
        z == days + 719468
        era == z \div 146097
        doe == z - era * 146097
        yoe == (doe - doe \div 1460 + doe \div 36524 - doe \div 146096) \div 365
        doy == doe - (365 * yoe + yoe \div 4 - yoe \div 100)
        mp == (5 * doy + 2) \div 153
        d == doy - (153 * mp + 2) \div 5 + 1
        m == IF mp < 10 THEN mp + 3 ELSE mp - 9
        y == yoe + era * 400 + (IF m <= 2 THEN 1 ELSE 0)
    IN  Pad(y, 4) \o <<"-">> \o Pad(m, 2) \o <<"-">> \o Pad(d, 2) \o <<"T">>
        \o Pad(rem \div 3600, 2) \o <<":">> \o Pad((rem % 3600) \div 60, 2)
        \o <<":">> \o Pad(rem % 60, 2) \o <<".">> \o Pad(date.ms, 3) \o <<"Z">>

\* String.prototype.slice(from, to), 0 <= from <= to
Slice(s, from, to) ==
    SubSeq(s, from + 1, IF to < Len(s) THEN to ELSE Len(s))

\* String.prototype.replace(a, b) for one-character a and b: the first a only
Replace(s, a, b) ==
    IF \E k \in 1..Len(s) : s[k] = a
    THEN LET first == CHOOSE k \in 1..Len(s) :
                          s[k] = a /\ \A j \in 1..(k - 1) : s[j] # a
         IN  [s EXCEPT ![first] = b]
    ELSE s

\* formatDate(date): the body formats new Date(), read as `now`, not `date`
formatDate(date, now) ==
    Replace(Slice(ToISOString(now), 0, 19), "T", " ")

\* formatDate not called on its own: no clock kept, nothing formatted
NoFmt == [now |-> [sec |-> 0, ms |-> 0], log |-> << >>]

----------------------------------------------------------------------------
(* The record writers (src/src/db/index.ts).  A writer is modelled up to   *)
(* its store call: it throws, or it hands one request to RDS and awaits    *)
(* it; `id` is what genId(32) returned and `now` what the clock reads.     *)

Param(name, value) == [name |-> name, value |-> value]
Blob(s) == [blobValue |-> BufferFromHex(s)]
Double(n) == [doubleValue |-> n]
String(s) == [stringValue |-> s]

NoRequest == [operation |-> "none"]

\* What a writer has done when it throws or awaits RDS: `generated` is the
\* id it has drawn from genId by then, if it has come that far
Throws(error, generated) ==
    [threw |-> TRUE, error |-> error, request |-> NoRequest,
     generated |-> generated]
Requests(id, request) ==
    [threw |-> FALSE, error |-> NoError, request |-> request,
     generated |-> Some(id)]

\* The first of DATABASE, SECRET_ARN, CLUSTER_ARN that is not set, if any
EnvThrows ==
    IF getEnvVariable("DATABASE").threw THEN <<getEnvVariable("DATABASE").error>>
    ELSE IF getEnvVariable("SECRET_ARN").threw
         THEN <<getEnvVariable("SECRET_ARN").error>>
    ELSE IF getEnvVariable("CLUSTER_ARN").threw
         THEN <<getEnvVariable("CLUSTER_ARN").error>>
    ELSE << >>

\* AWS.RDSDataService.ExecuteStatementRequest
ExecuteStatementRequest(sqlTransactionId, parameters) ==
    [operation |-> "executeStatement",
     database |-> getEnvVariable("DATABASE").value,
     secretArn |-> getEnvVariable("SECRET_ARN").value,
     resourceArn |-> getEnvVariable("CLUSTER_ARN").value,
     transactionId |-> sqlTransactionId,
     sql |-> "INSERT ...",
     parameters |-> parameters]

\* Mutant: the batch is issued outside the caller's transaction.
BatchRequestWithoutTransaction(sqlTransactionId, parameterSets) ==
    [operation |-> "batchExecuteStatement",
     database |-> getEnvVariable("DATABASE").value,
     secretArn |-> getEnvVariable("SECRET_ARN").value,
     resourceArn |-> getEnvVariable("CLUSTER_ARN").value,
     transactionId |-> << >>,
     sql |-> "INSERT ...",
     parameterSets |-> parameterSets]

\* AWS.RDSDataService.BatchExecuteStatementRequest
BatchExecuteStatementRequest(sqlTransactionId, parameterSets) ==
    [operation |-> "batchExecuteStatement",
     database |-> getEnvVariable("DATABASE").value,
     secretArn |-> getEnvVariable("SECRET_ARN").value,
     resourceArn |-> getEnvVariable("CLUSTER_ARN").value,
     transactionId |-> sqlTransactionId,
     sql |-> "INSERT ...",
     parameterSets |-> parameterSets]

\* Mutant: the status looks at the payment method alone.
PaymentStatusByMethod(paymentMethod, amount) ==
    IF paymentMethod # FedNow THEN COMPLETE ELSE PENDING

\* the paymentStatus parameter of the Payment statement
PaymentStatusOf(paymentMethod, amount) ==
    IF paymentMethod # FedNow \/ amount = 0 THEN COMPLETE ELSE PENDING

\* Mutant: the null flag looks at the payment method alone.
DatePaidIsNullByMethod(paymentMethod, amount) ==
    paymentMethod = FedNow

\* the isNull flag of the datePaid parameter
DatePaidIsNull(paymentMethod, amount) ==
    paymentMethod = FedNow /\ amount > 0

\* the stringValue of the datePaid parameter
DatePaidStringValue(paymentMethod, amount, date, now) ==
    IF paymentMethod = FedNow /\ amount > 0
    THEN Undefined
    ELSE Some(formatDate(date, now))

insertPayment(params, id, date, now) ==
    IF InsertPaymentParamsSchema(params) # << >>
    THEN Throws(ZodError(InsertPaymentParamsSchema(params)), Undefined)
    ELSE IF EnvThrows # << >> THEN Throws(EnvThrows[1], Some(id))
    ELSE Requests(id, ExecuteStatementRequest(params.sqlTransactionId, <<
        Param("paymentId", Blob(id)),
        Param("payerId", Blob(params.payerId)),
        Param("payeeId", Blob(params.payeeId)),
        Param("developerId", Blob(params.developerId)),
        Param("paymentAmount", Double(params.amount)),
        Param("interactionTypeId", Double(params.interactionTypeId)),
        Param("paymentMethod", Double(params.paymentMethod)),
        Param("paymentStatus",
              Double(PaymentStatusOf(params.paymentMethod, params.amount))),
        Param("datePaid",
              [stringValue |-> DatePaidStringValue(params.paymentMethod,
                                                   params.amount, date, now),
               isNull |-> DatePaidIsNull(params.paymentMethod, params.amount)])
        >>))

\* Mutant: the statement is keyed by the payment's id, not the generated one.
insertFedNowPaymentKeyedByPayment(params, id) ==
    IF InsertFedNowPaymentParamsSchema(params) # << >>
    THEN Throws(ZodError(InsertFedNowPaymentParamsSchema(params)),
                Undefined)
    ELSE IF EnvThrows # << >> THEN Throws(EnvThrows[1], Some(id))
    ELSE Requests(id, ExecuteStatementRequest(params.sqlTransactionId, <<
        Param("fedNowPaymentId", Blob(params.paymentId)),
        Param("paymentId", Blob(params.paymentId)),
        Param("payerAccountId", String(params.payerAccountId)),
        Param("payeeAccountId", String(params.payeeAccountId))
        >>))

insertFedNowPayment(params, id) ==
    IF InsertFedNowPaymentParamsSchema(params) # << >>
    THEN Throws(ZodError(InsertFedNowPaymentParamsSchema(params)),
                Undefined)
    ELSE IF EnvThrows # << >> THEN Throws(EnvThrows[1], Some(id))
    ELSE Requests(id, ExecuteStatementRequest(params.sqlTransactionId, <<
        Param("fedNowPaymentId", Blob(id)),
        Param("paymentId", Blob(params.paymentId)),
        Param("payerAccountId", String(params.payerAccountId)),
        Param("payeeAccountId", String(params.payeeAccountId))
        >>))

\* Mutant: the params are not parsed before the statement is issued.
insertLedgerEntryUnvalidated(params, id) ==
    IF EnvThrows # << >> THEN Throws(EnvThrows[1], Some(id))
    ELSE Requests(id, ExecuteStatementRequest(params.sqlTransactionId, <<
        Param("ledgerId", Blob(id)),
        Param("payerId", Blob(params.payerId)),
        Param("payeeId", Blob(params.payeeId)),
        Param("amount", Double(params.amount)),
        Param("interactionTypeId", Double(params.interactionTypeId)),
        Param("developerId", Blob(params.developerId))
        >>))

insertLedgerEntry(params, id) ==
    IF InsertLedgerEntryParamsSchema(params) # << >>
    THEN Throws(ZodError(InsertLedgerEntryParamsSchema(params)), Undefined)
    ELSE IF EnvThrows # << >> THEN Throws(EnvThrows[1], Some(id))
    ELSE Requests(id, ExecuteStatementRequest(params.sqlTransactionId, <<
        Param("ledgerId", Blob(id)),
        Param("payerId", Blob(params.payerId)),
        Param("payeeId", Blob(params.payeeId)),
        Param("amount", Double(params.amount)),
        Param("interactionTypeId", Double(params.interactionTypeId)),
        Param("developerId", Blob(params.developerId))
        >>))

insertPromotionLedgerEntry(params, id) ==
    IF InsertPromotionLedgerEntryParamsSchema(params) # << >>
    THEN Throws(ZodError(InsertPromotionLedgerEntryParamsSchema(params)),
                Undefined)
    ELSE IF EnvThrows # << >> THEN Throws(EnvThrows[1], Some(id))
    ELSE Requests(id, ExecuteStatementRequest(params.sqlTransactionId, <<
        Param("ledgerId", Blob(id)),
        Param("payerId", Blob(params.payerId)),
        Param("payeeId", Blob(params.payeeId)),
        Param("developerId", Blob(params.developerId)),
        Param("amount", Double(params.promoAmount)),
        Param("interactionTypeId", Double(params.interactionTypeId))
        >>))

\* Mutant: the parameter sets come out last ledger entry first.
ParameterSetsReversed(ledgerEntryIds, id) ==
    [k \in 1..Len(ledgerEntryIds) |->
        <<Param("transactionId", Blob(id)),
          Param("ledgerId",
                Blob(ledgerEntryIds[Len(ledgerEntryIds) + 1 - k]))>>]

\* ledgerEntries.map(...): one parameter set per ledger entry, in order
ParameterSets(ledgerEntryIds, id) ==
    [k \in 1..Len(ledgerEntryIds) |->
        <<Param("transactionId", Blob(id)),
          Param("ledgerId", Blob(ledgerEntryIds[k]))>>]

insertTransactionRecord(params, id) ==
    IF InsertTransactionRecordParamsSchema(params) # << >>
    THEN Throws(ZodError(InsertTransactionRecordParamsSchema(params)),
                Undefined)
    ELSE IF EnvThrows # << >> THEN Throws(EnvThrows[1], Some(id))
    ELSE Requests(id, BatchExecuteStatementRequest(params.sqlTransactionId,
                      ParameterSets(params.ledgerEntries, id)))

\* db[writer](params) for the writers that read no clock
Writer(writer, params, id) ==
    CASE writer = "insertFedNowPayment" -> insertFedNowPayment(params, id)
      [] writer = "insertLedgerEntry" -> insertLedgerEntry(params, id)
      [] writer = "insertPromotionLedgerEntry" ->
             insertPromotionLedgerEntry(params, id)
      [] writer = "insertTransactionRecord" ->
             insertTransactionRecord(params, id)

----------------------------------------------------------------------------
(* The inputs executeStandardPTOperations is invoked with *)

Amounts == (-1)..MaxAmount
PayerIds == {PAYER_ID, INVALID, NON_HEX_ID}
PayeeIds == {PAYEE_ID, INVALID}
DeveloperIds == {DEVELOPER_ID, INVALID}
SqlTransactionIds == {SQL_TRANSACTION_ID, INVALID}
PayerAccountIds == {Undefined, Some(PAYER_ACCOUNT_ID), Some(INVALID)}
PayeeAccountIds == {Undefined, Some(PAYEE_ACCOUNT_ID), Some(INVALID)}
PaymentMethods == {FedNow, Card, 10}
PromoAmounts == {Undefined} \cup {Some(a) : a \in Amounts}

UserPurchaseInformations ==
    [payerId : PayerIds, payeeId : PayeeIds, developerId : DeveloperIds,
     amount : Amounts, interactionTypeId : {1},
     paymentMethod : PaymentMethods,
     payerAccountId : PayerAccountIds, payeeAccountId : PayeeAccountIds]

BundleInputs ==
    [userPurchaseInformation : UserPurchaseInformations,
     promotionInformation : [promoAmount : PromoAmounts],
     sqlTransactionId : SqlTransactionIds]

EnvNames == {"DATABASE", "SECRET_ARN", "CLUSTER_ARN"}

----------------------------------------------------------------------------
(* executeStandardPTOperations (src/src/index.ts) *)

Writers == <<"insertPayment", "insertFedNowPayment", "insertLedgerEntry",
             "insertPromotionLedgerEntry", "insertTransactionRecord">>

IsWriter(w) == \E k \in 1..Len(Writers) : Writers[k] = w

InitialIdObj ==
    [primaryPaymentID |-> Null,
     customerLedgerEntryID |-> Null,
     pursTransactionID |-> Null]

NoPending == [writer |-> "", id |-> << >>]

Pending == [state |-> "pending", value |-> Undefined, error |-> NoError]
Resolved(value) ==
    [state |-> "resolved", value |-> Some(value), error |-> NoError]

\* Mutant: the error is caught and a new one thrown in its place.
PropagateWrapped(error) == Error("Operation failed")

\* An await with no try/catch around it: the rejection passes through as it is.
Propagate(error) == error

\* Mutant: a failure hands back the ids object as it was first built.
RejectedWithIds(error) ==
    [state |-> "rejected", value |-> Some(InitialIdObj),
     error |-> Propagate(error)]

Rejected(error) ==
    [state |-> "rejected", value |-> Undefined, error |-> Propagate(error)]

\* What RDS rejects a request with when it fails
StoreErrors == {Error("Database operation failed"), Error("Connection lost")}

PaymentParams(p) ==
    [payerId |-> p.userPurchaseInformation.payerId,
     payeeId |-> p.userPurchaseInformation.payeeId,
     developerId |-> p.userPurchaseInformation.developerId,
     amount |-> p.userPurchaseInformation.amount,
     interactionTypeId |-> p.userPurchaseInformation.interactionTypeId,
     paymentMethod |-> p.userPurchaseInformation.paymentMethod,
     sqlTransactionId |-> p.sqlTransactionId]

\* Mutant: the amount is not looked at.
FedNowConditionIgnoringAmount(p) ==
    /\ p.userPurchaseInformation.paymentMethod = FedNow
    /\ p.userPurchaseInformation.payerAccountId # Null
    /\ p.userPurchaseInformation.payeeAccountId # Null

\* Mutant: the payment method is not looked at.
FedNowConditionAnyMethod(p) ==
    /\ p.userPurchaseInformation.amount > 0
    /\ p.userPurchaseInformation.payerAccountId # Null
    /\ p.userPurchaseInformation.payeeAccountId # Null

FedNowCondition(p) ==
    /\ p.userPurchaseInformation.paymentMethod = FedNow
    /\ p.userPurchaseInformation.amount > 0
    /\ p.userPurchaseInformation.payerAccountId # Null
    /\ p.userPurchaseInformation.payeeAccountId # Null

\* Mutant: the two account ids change places.
FedNowPaymentParamsSwapped(p, id) ==
    [paymentId |-> id,
     payerAccountId |-> Get(p.userPurchaseInformation.payeeAccountId),
     payeeAccountId |-> Get(p.userPurchaseInformation.payerAccountId),
     sqlTransactionId |-> p.sqlTransactionId]

FedNowPaymentParams(p, id) ==
    [paymentId |-> id,
     payerAccountId |-> Get(p.userPurchaseInformation.payerAccountId),
     payeeAccountId |-> Get(p.userPurchaseInformation.payeeAccountId),
     sqlTransactionId |-> p.sqlTransactionId]

\* Mutant: the ledger entry is written from payee to payer.
LedgerEntryParamsSwapped(p) ==
    [payerId |-> p.userPurchaseInformation.payeeId,
     payeeId |-> p.userPurchaseInformation.payerId,
     developerId |-> p.userPurchaseInformation.developerId,
     amount |-> p.userPurchaseInformation.amount,
     interactionTypeId |-> p.userPurchaseInformation.interactionTypeId,
     sqlTransactionId |-> p.sqlTransactionId]

LedgerEntryParams(p) ==
    [payerId |-> p.userPurchaseInformation.payerId,
     payeeId |-> p.userPurchaseInformation.payeeId,
     developerId |-> p.userPurchaseInformation.developerId,
     amount |-> p.userPurchaseInformation.amount,
     interactionTypeId |-> p.userPurchaseInformation.interactionTypeId,
     sqlTransactionId |-> p.sqlTransactionId]

\* Mutant: a promotion of 0 counts as a promotion.
PromotionConditionFromZero(p) ==
    /\ p.promotionInformation.promoAmount # Null
    /\ Get(p.promotionInformation.promoAmount) >= 0

PromotionCondition(p) ==
    /\ p.promotionInformation.promoAmount # Null
    /\ Get(p.promotionInformation.promoAmount) > 0

PromotionLedgerEntryParams(p) ==
    [developerId |-> p.userPurchaseInformation.developerId,
     payeeId |-> p.userPurchaseInformation.payeeId,
     payerId |-> p.userPurchaseInformation.payerId,
     promoAmount |-> Get(p.promotionInformation.promoAmount),
     interactionTypeId |-> p.userPurchaseInformation.interactionTypeId,
     sqlTransactionId |-> p.sqlTransactionId]

\* Mutant: ledgerEntries.unshift(id)
Unshift(entries, id) == <<id>> \o entries

\* ledgerEntries.push(id)
Push(entries, id) == Append(entries, id)

TransactionRecordParams(p, entries) ==
    [ledgerEntries |-> entries, sqlTransactionId |-> p.sqlTransactionId]

\* The settlements of writers' promises: a returned id, or a rejection that
\* came from the writer itself (fromStore FALSE) or from RDS (fromStore TRUE,
\* and `cause` is what RDS rejected the request with); `generated` is the
\* id the writer had drawn from genId by then
Returned(i, writer, id) ==
    [by |-> i, writer |-> writer, ok |-> TRUE, id |-> Some(id),
     error |-> NoError, fromStore |-> FALSE, cause |-> NoError,
     generated |-> Some(id)]
Failed(i, writer, error, fromStore) ==
    [by |-> i, writer |-> writer, ok |-> FALSE, id |-> Undefined,
     error |-> error, fromStore |-> fromStore,
     cause |-> IF fromStore THEN error ELSE NoError,
     generated |-> IF fromStore THEN Some(pending[i].id) ELSE Undefined]

\* Mutant: the writer catches the store's error and throws its own.
RethrowWrapped(cause) == Error("Insert failed")

\* await RDS.executeStatement(...).promise() with no try/catch around it:
\* the writer rejects with what the store rejected with
Rethrow(cause) == cause

StoreFailed(i, writer, cause) ==
    [Failed(i, writer, cause, TRUE) EXCEPT !.error = Rethrow(cause)]

\* const id = await db[writer](params), up to the await: the writer threw
\* r.error and the invocation rejects with it, or r.request is with RDS.
\* `settled` is the log of settlements up to this call.
Await(i, writer, params, id, r, settled) ==
    /\ calls' = Append(calls, [by |-> i, writer |-> writer, params |-> params])
    /\ IF r.threw
       THEN /\ store' = store
            /\ returns' = Append(settled,
                                  [Failed(i, writer, r.error, FALSE)
                                       EXCEPT !.generated = r.generated])
            /\ pending' = [pending EXCEPT ![i] = NoPending]
            /\ pc' = [pc EXCEPT ![i] = "rejected"]
            /\ outcome' = [outcome EXCEPT ![i] = Rejected(r.error)]
       ELSE /\ store' = Append(store, [by |-> i, writer |-> writer,
                                       params |-> params,
                                       request |-> r.request])
            /\ returns' = settled
            /\ pending' = [pending EXCEPT ![i] = [writer |-> writer, id |-> id]]
            /\ pc' = [pc EXCEPT ![i] = writer]
            /\ outcome' = outcome

\* await insertPayment(params): the clock is read for the argument of
\* formatDate and again inside it
CallInsertPayment(i, params) ==
    \E random \in RandomRuns(IdLength), date \in Clock, now \in Clock :
        /\ date.sec <= now.sec
        /\ Await(i, "insertPayment", params, genId(IdLength, random),
                 insertPayment(params, genId(IdLength, random), date, now),
                 returns)

\* Mutant: the next writer is called while the one before it is still
\* awaited.
CallWithoutAwait(i, writer, params) ==
    \E random \in RandomRuns(IdLength) :
        Await(i, writer, params, genId(IdLength, random),
              Writer(writer, params, genId(IdLength, random)), returns)

\* await db[writer](params) for the other writers, the writer awaited before
\* it having returned the id pending[i].id
Call(i, writer, params) ==
    \E random \in RandomRuns(IdLength) :
        Await(i, writer, params, genId(IdLength, random),
              Writer(writer, params, genId(IdLength, random)),
              Append(returns, Returned(i, pending[i].writer, pending[i].id)))

Init ==
    /\ env \in SUBSET EnvNames
    /\ pc = [i \in Invocations |-> IF i = 1 THEN "ready" ELSE "unused"]
    /\ input = [i \in Invocations |-> Undefined]
    /\ paymentId = [i \in Invocations |-> Undefined]
    /\ ledgerEntries = [i \in Invocations |-> << >>]
    /\ idObj = [i \in Invocations |-> InitialIdObj]
    /\ pending = [i \in Invocations |-> NoPending]
    /\ outcome = [i \in Invocations |-> Pending]
    /\ calls = << >>
    /\ returns = << >>
    /\ store = << >>
    /\ gen = NoGen
    /\ fmt = NoFmt

\* Mutant: an input that another invocation has resolved with is not
\* written again; the ids of that invocation are handed back.
StartDeduplicating(i, params) ==
    /\ input' = [input EXCEPT ![i] = Some(params)]
    /\ IF \E j \in Invocations :
              pc[j] = "resolved" /\ input[j] = Some(params)
       THEN /\ pc' = [pc EXCEPT ![i] = "resolved"]
            /\ outcome' = [outcome EXCEPT ![i] =
                   outcome[CHOOSE j \in Invocations :
                               pc[j] = "resolved" /\ input[j] = Some(params)]]
            /\ UNCHANGED <<calls, returns, store, pending>>
       ELSE CallInsertPayment(i, PaymentParams(params))

\* index.ts:28-63: parse the params, then the call of insertPayment
Start(i, params) ==
    /\ input' = [input EXCEPT ![i] = Some(params)]
    /\ IF ExecuteStandardPTOperationsParamsSchema(params) # << >>
       THEN /\ pc' = [pc EXCEPT ![i] = "rejected"]
            /\ outcome' = [outcome EXCEPT ![i] = Rejected(ZodError(
                   ExecuteStandardPTOperationsParamsSchema(params)))]
            /\ UNCHANGED <<calls, returns, store, pending>>
       ELSE CallInsertPayment(i, PaymentParams(params))

\* executeStandardPTOperations(params), invoked once with any params
Invoke(i) ==
    /\ pc[i] = "ready"
    /\ \E params \in BundleInputs : Start(i, params)
    /\ UNCHANGED <<fmt, gen, env, paymentId, ledgerEntries, idObj>>

\* index.ts:64-90: insertPayment resolved
PaymentInserted(i) ==
    /\ pc[i] = "insertPayment"
    /\ paymentId' = [paymentId EXCEPT ![i] = Some(pending[i].id)]
    /\ idObj' = [idObj EXCEPT ![i].primaryPaymentID = Some(pending[i].id)]
    /\ IF FedNowCondition(Get(input[i]))
       THEN Call(i, "insertFedNowPayment",
                 FedNowPaymentParams(Get(input[i]), pending[i].id))
       ELSE Call(i, "insertLedgerEntry", LedgerEntryParams(Get(input[i])))
    /\ UNCHANGED <<fmt, gen, env, input, ledgerEntries>>

\* Mutant: the id of the FedNow payment is not kept.
FedNowPaymentInsertedUnrecorded(i) ==
    /\ pc[i] = "insertFedNowPayment"
    /\ idObj' = idObj
    /\ Call(i, "insertLedgerEntry", LedgerEntryParams(Get(input[i])))
    /\ UNCHANGED <<fmt, gen, env, input, paymentId, ledgerEntries>>

\* index.ts:79-90: insertFedNowPayment resolved
FedNowPaymentInserted(i) ==
    /\ pc[i] = "insertFedNowPayment"
    /\ idObj' = [idObj EXCEPT ![i] =
                    [primaryFedNowPaymentID |-> Some(pending[i].id)] @@ @]
    /\ Call(i, "insertLedgerEntry", LedgerEntryParams(Get(input[i])))
    /\ UNCHANGED <<fmt, gen, env, input, paymentId, ledgerEntries>>

\* Mutant: ledgerEntries is one array of the module, shared by all
\* invocations.
LedgerEntryInsertedShared(i) ==
    /\ pc[i] = "insertLedgerEntry"
    /\ idObj' = [idObj EXCEPT ![i].customerLedgerEntryID = Some(pending[i].id)]
    /\ ledgerEntries' = [j \in Invocations |->
                            Push(ledgerEntries[j], pending[i].id)]
    /\ Call(i, "insertTransactionRecord",
            TransactionRecordParams(Get(input[i]), ledgerEntries'[i]))
    /\ UNCHANGED <<fmt, gen, env, input, paymentId>>

\* index.ts:91-112: insertLedgerEntry resolved
LedgerEntryInserted(i) ==
    /\ pc[i] = "insertLedgerEntry"
    /\ idObj' = [idObj EXCEPT ![i].customerLedgerEntryID = Some(pending[i].id)]
    /\ ledgerEntries' = [ledgerEntries EXCEPT ![i] = Push(@, pending[i].id)]
    /\ IF PromotionCondition(Get(input[i]))
       THEN Call(i, "insertPromotionLedgerEntry",
                 PromotionLedgerEntryParams(Get(input[i])))
       ELSE Call(i, "insertTransactionRecord",
                 TransactionRecordParams(Get(input[i]), ledgerEntries'[i]))
    /\ UNCHANGED <<fmt, gen, env, input, paymentId>>

\* index.ts:104-112: insertPromotionLedgerEntry resolved
PromotionLedgerEntryInserted(i) ==
    /\ pc[i] = "insertPromotionLedgerEntry"
    /\ ledgerEntries' = [ledgerEntries EXCEPT ![i] = Push(@, pending[i].id)]
    /\ idObj' = [idObj EXCEPT ![i] =
                    [promotionLedgerEntryID |-> Some(pending[i].id)] @@ @]
    /\ Call(i, "insertTransactionRecord",
            TransactionRecordParams(Get(input[i]), ledgerEntries'[i]))
    /\ UNCHANGED <<fmt, gen, env, input, paymentId>>

\* Mutant: the ledger entry is written once more after the transaction record.
TransactionRecordInsertedThenLedger(i) ==
    /\ pc[i] = "insertTransactionRecord"
    /\ idObj' = [idObj EXCEPT ![i].pursTransactionID = Some(pending[i].id)]
    /\ Call(i, "insertLedgerEntry", LedgerEntryParams(Get(input[i])))
    /\ UNCHANGED <<fmt, gen, env, input, paymentId, ledgerEntries>>

\* index.ts:113-115: insertTransactionRecord resolved
TransactionRecordInserted(i) ==
    /\ pc[i] = "insertTransactionRecord"
    /\ idObj' = [idObj EXCEPT ![i].pursTransactionID = Some(pending[i].id)]
    /\ pending' = [pending EXCEPT ![i] = NoPending]
    /\ pc' = [pc EXCEPT ![i] = "resolved"]
    /\ outcome' = [outcome EXCEPT ![i] = Resolved(idObj'[i])]
    /\ returns' = Append(returns, Returned(i, pending[i].writer, pending[i].id))
    /\ UNCHANGED <<fmt, gen, env, input, paymentId, ledgerEntries, calls, store>>

\* Mutant: a failed write takes the invocation's earlier writes back.
StoreRejectsWithRollback(i) ==
    /\ IsWriter(pc[i])
    /\ \E cause \in StoreErrors :
        /\ returns' = Append(returns, StoreFailed(i, pending[i].writer, cause))
        /\ outcome' = [outcome EXCEPT ![i] = Rejected(Rethrow(cause))]
    /\ store' = SelectSeq(store, LAMBDA q : q.by # i)
    /\ pending' = [pending EXCEPT ![i] = NoPending]
    /\ pc' = [pc EXCEPT ![i] = "rejected"]
    /\ UNCHANGED <<fmt, gen, env, input, paymentId, ledgerEntries, idObj, calls>>

\* Mutant: a write that failed is issued again.
StoreRejectsAndRetries(i) ==
    /\ IsWriter(pc[i])
    /\ \E cause \in StoreErrors :
           returns' = Append(returns, StoreFailed(i, pending[i].writer, cause))
    /\ calls' = Append(calls, calls[Len(calls)])
    /\ store' = Append(store, store[Len(store)])
    /\ UNCHANGED <<fmt, gen, env, pc, input, paymentId, ledgerEntries, idObj,
                   pending, outcome>>

\* RDS rejects the request a writer awaits: the writer rejects with the
\* store's error, and so does the await of the writer in index.ts.
StoreRejects(i) ==
    /\ IsWriter(pc[i])
    /\ \E cause \in StoreErrors :
        /\ returns' = Append(returns, StoreFailed(i, pending[i].writer, cause))
        /\ outcome' = [outcome EXCEPT ![i] = Rejected(Rethrow(cause))]
    /\ pending' = [pending EXCEPT ![i] = NoPending]
    /\ pc' = [pc EXCEPT ![i] = "rejected"]
    /\ UNCHANGED <<fmt, gen, env, input, paymentId, ledgerEntries, idObj, calls, store>>

Next ==
    \E i \in Invocations :
        \/ Invoke(i)
        \/ PaymentInserted(i)
        \/ FedNowPaymentInserted(i)
        \/ LedgerEntryInserted(i)
        \/ PromotionLedgerEntryInserted(i)
        \/ TransactionRecordInserted(i)
        \/ StoreRejects(i)

Spec == Init /\ [][Next]_vars

\* RDS answers the request it holds: the awaiting writer returns into
\* executeStandardPTOperations, or rejects
StoreSettles ==
    \E i \in Invocations :
        \/ PaymentInserted(i)
        \/ FedNowPaymentInserted(i)
        \/ LedgerEntryInserted(i)
        \/ PromotionLedgerEntryInserted(i)
        \/ TransactionRecordInserted(i)
        \/ StoreRejects(i)

\* Spec with every store call answered in the end
SpecLive == Init /\ [][Next]_vars /\ WF_vars(StoreSettles)

----------------------------------------------------------------------------
(* The writers called on their own, as their tests call them               *)
(* (src/unnamed/part_001): await db[writer](params) with params that the   *)
(* bundle's validation has not seen.                                       *)

MaxLedgerEntries == 2

LedgerIds == {Repeat("1", IdLength), Repeat("2", IdLength)}

LedgerEntryLists ==
    UNION {[1..n -> LedgerIds] : n \in 0..MaxLedgerEntries}

WriterParams(writer) ==
    CASE writer = "insertPayment" ->
             [payerId : PayerIds, payeeId : PayeeIds,
              developerId : DeveloperIds, amount : Amounts,
              interactionTypeId : {1}, paymentMethod : PaymentMethods,
              sqlTransactionId : SqlTransactionIds]
      [] writer = "insertFedNowPayment" ->
             [paymentId : {Repeat("1", IdLength), INVALID},
              payerAccountId : {PAYER_ACCOUNT_ID, INVALID},
              payeeAccountId : {PAYEE_ACCOUNT_ID, INVALID},
              sqlTransactionId : SqlTransactionIds]
      [] writer = "insertLedgerEntry" ->
             [payerId : PayerIds, payeeId : PayeeIds,
              developerId : DeveloperIds, amount : Amounts,
              interactionTypeId : {1}, sqlTransactionId : SqlTransactionIds]
      [] writer = "insertPromotionLedgerEntry" ->
             [developerId : DeveloperIds, payeeId : PayeeIds,
              payerId : PayerIds, promoAmount : Amounts,
              interactionTypeId : {1}, sqlTransactionId : SqlTransactionIds]
      [] writer = "insertTransactionRecord" ->
             [ledgerEntries : LedgerEntryLists,
              sqlTransactionId : SqlTransactionIds]

InitWriters ==
    /\ env \in SUBSET EnvNames
    /\ pc = [i \in Invocations |-> IF i = 1 THEN "test" ELSE "unused"]
    /\ input = [i \in Invocations |-> Undefined]
    /\ paymentId = [i \in Invocations |-> Undefined]
    /\ ledgerEntries = [i \in Invocations |-> << >>]
    /\ idObj = [i \in Invocations |-> InitialIdObj]
    /\ pending = [i \in Invocations |-> NoPending]
    /\ outcome = [i \in Invocations |-> Pending]
    /\ calls = << >>
    /\ returns = << >>
    /\ store = << >>
    /\ gen = NoGen
    /\ fmt = NoFmt

\* await db[writer](params), up to the writer's await of RDS
CallWriter(i) ==
    /\ pc[i] = "test"
    /\ \E k \in 1..Len(Writers) :
        \E params \in WriterParams(Writers[k]) :
            IF Writers[k] = "insertPayment"
            THEN CallInsertPayment(i, params)
            ELSE \E random \in RandomRuns(IdLength) :
                     Await(i, Writers[k], params, genId(IdLength, random),
                           Writer(Writers[k], params, genId(IdLength, random)),
                           returns)
    /\ UNCHANGED <<fmt, gen, env, input, paymentId, ledgerEntries, idObj>>

\* RDS resolves the request: the writer returns the id it generated
WriterReturns(i) ==
    /\ IsWriter(pc[i])
    /\ returns' = Append(returns, Returned(i, pending[i].writer, pending[i].id))
    /\ outcome' = [outcome EXCEPT ![i] = Resolved(pending[i].id)]
    /\ pending' = [pending EXCEPT ![i] = NoPending]
    /\ pc' = [pc EXCEPT ![i] = "resolved"]
    /\ UNCHANGED <<fmt, gen, env, input, paymentId, ledgerEntries, idObj, calls, store>>

NextWriters ==
    \E i \in Invocations :
        \/ CallWriter(i)
        \/ WriterReturns(i)
        \/ StoreRejects(i)

SpecWriters == InitWriters /\ [][NextWriters]_vars

----------------------------------------------------------------------------
(* The writers as both of their callers call them: by                      *)
(* executeStandardPTOperations (input[i] holds its params) and on their    *)
(* own (input[i] stays undefined).                                         *)

InitCallers == Init \/ InitWriters

\* the writer called on its own returns to its caller
DirectCallReturns(i) ==
    /\ ~IsPresent(input[i])
    /\ WriterReturns(i)

\* the writer called by executeStandardPTOperations returns into it
BundleContinues(i) ==
    /\ IsPresent(input[i])
    /\ \/ PaymentInserted(i)
       \/ FedNowPaymentInserted(i)
       \/ LedgerEntryInserted(i)
       \/ PromotionLedgerEntryInserted(i)
       \/ TransactionRecordInserted(i)

NextCallers ==
    \E i \in Invocations :
        \/ Invoke(i)
        \/ CallWriter(i)
        \/ BundleContinues(i)
        \/ DirectCallReturns(i)
        \/ StoreRejects(i)

SpecCallers == InitCallers /\ [][NextCallers]_vars

----------------------------------------------------------------------------
(* executeStandardPTOperations invoked by two callers, invocation 2 at any *)
(* point after invocation 1: in the midst of it, with the writer           *)
(* calls of the two interleaved in any order, or after it has settled.     *)
(* The store fails no request here; its failures are followed in Spec.     *)

\* fedNowUserPurchaseInformation of the orchestrator's tests, no promotion
FedNowBundle ==
    [userPurchaseInformation |->
        [payeeId |-> PAYEE_ID, payerId |-> PAYER_ID,
         payerAccountId |-> Some(PAYER_ACCOUNT_ID),
         payeeAccountId |-> Some(PAYEE_ACCOUNT_ID),
         developerId |-> DEVELOPER_ID, amount |-> MaxAmount,
         interactionTypeId |-> 1, paymentMethod |-> FedNow],
     promotionInformation |-> [promoAmount |-> Undefined],
     sqlTransactionId |-> SQL_TRANSACTION_ID]

\* That bundle, and the same with a scope token validation rejects
TwoInputs == {FedNowBundle, [FedNowBundle EXCEPT !.sqlTransactionId = INVALID]}

InitTwo ==
    /\ env = EnvNames
    /\ pc = [i \in Invocations |-> "one of two"]
    /\ input = [i \in Invocations |-> Undefined]
    /\ paymentId = [i \in Invocations |-> Undefined]
    /\ ledgerEntries = [i \in Invocations |-> << >>]
    /\ idObj = [i \in Invocations |-> InitialIdObj]
    /\ pending = [i \in Invocations |-> NoPending]
    /\ outcome = [i \in Invocations |-> Pending]
    /\ calls = << >>
    /\ returns = << >>
    /\ store = << >>
    /\ gen = NoGen
    /\ fmt = NoFmt

\* executeStandardPTOperations(params), one of the two invocations
InvokeOneOfTwo(i) ==
    /\ pc[i] = "one of two"
    /\ \A j \in Invocations : j < i => pc[j] # "one of two"
    /\ \E params \in TwoInputs : Start(i, params)
    /\ UNCHANGED <<fmt, gen, env, paymentId, ledgerEntries, idObj>>

NextTwo ==
    \E i \in Invocations :
        \/ InvokeOneOfTwo(i)
        \/ PaymentInserted(i)
        \/ FedNowPaymentInserted(i)
        \/ LedgerEntryInserted(i)
        \/ TransactionRecordInserted(i)

SpecTwo == InitTwo /\ [][NextTwo]_vars

----------------------------------------------------------------------------
(* executeStandardPTOperations invoked again with the input of an          *)
(* invocation that has resolved                                            *)

InitTwice ==
    /\ env = EnvNames
    /\ pc = [i \in Invocations |-> IF i = 1 THEN "first" ELSE "again"]
    /\ input = [i \in Invocations |-> Undefined]
    /\ paymentId = [i \in Invocations |-> Undefined]
    /\ ledgerEntries = [i \in Invocations |-> << >>]
    /\ idObj = [i \in Invocations |-> InitialIdObj]
    /\ pending = [i \in Invocations |-> NoPending]
    /\ outcome = [i \in Invocations |-> Pending]
    /\ calls = << >>
    /\ returns = << >>
    /\ store = << >>
    /\ gen = NoGen
    /\ fmt = NoFmt

\* executeStandardPTOperations(params), the first time
InvokeFirst(i) ==
    /\ pc[i] = "first"
    /\ Start(i, FedNowBundle)
    /\ UNCHANGED <<fmt, gen, env, paymentId, ledgerEntries, idObj>>

\* executeStandardPTOperations(params) with the same params, the invocation
\* before it having resolved
InvokeAgain(i) ==
    /\ pc[i] = "again"
    /\ \E j \in Invocations :
           /\ pc[j] = "resolved"
           /\ Start(i, Get(input[j]))
    /\ UNCHANGED <<fmt, gen, env, paymentId, ledgerEntries, idObj>>

NextTwice ==
    \E i \in Invocations :
        \/ InvokeFirst(i)
        \/ InvokeAgain(i)
        \/ PaymentInserted(i)
        \/ FedNowPaymentInserted(i)
        \/ LedgerEntryInserted(i)
        \/ TransactionRecordInserted(i)
        \/ StoreRejects(i)

SpecTwice == InitTwice /\ [][NextTwice]_vars

----------------------------------------------------------------------------
(* genId called on its own (src/src/types/index.ts:132-140), one action    *)
(* per turn of its loop                                                     *)

MaxGenIdLength == 2

\* Math.floor(Math.random() * 16), Math.random() being in [0, 1)
RandomHexDigits == 0..15

InitGenId ==
    /\ env = EnvNames
    /\ pc = [i \in Invocations |-> "unused"]
    /\ input = [i \in Invocations |-> Undefined]
    /\ paymentId = [i \in Invocations |-> Undefined]
    /\ ledgerEntries = [i \in Invocations |-> << >>]
    /\ idObj = [i \in Invocations |-> InitialIdObj]
    /\ pending = [i \in Invocations |-> NoPending]
    /\ outcome = [i \in Invocations |-> Pending]
    /\ calls = << >>
    /\ returns = << >>
    /\ store = << >>
    /\ \E length \in 0..MaxGenIdLength :
           gen = [NoGen EXCEPT !.length = length]
    /\ fmt = NoFmt

\* Mutant: the loop runs while i <= length.
LoopConditionInclusive(g) == g.i <= g.length

\* i < length
LoopCondition(g) == g.i < g.length

\* One turn of the loop: result += randomHexDigit; i++
GenIdAppend ==
    /\ gen.returned = Undefined
    /\ LoopCondition(gen)
    /\ \E digit \in RandomHexDigits :
           gen' = [gen EXCEPT !.result = @ \o <<ToString16(digit)>>,
                              !.random = Append(@, digit),
                              !.i = @ + 1]
    /\ UNCHANGED <<fmt, env, pc, input, paymentId, ledgerEntries, idObj,
                   pending, outcome, calls, returns, store>>

\* return result
GenIdReturn ==
    /\ gen.returned = Undefined
    /\ ~LoopCondition(gen)
    /\ gen' = [gen EXCEPT !.returned = Some(gen.result)]
    /\ UNCHANGED <<fmt, env, pc, input, paymentId, ledgerEntries, idObj,
                   pending, outcome, calls, returns, store>>

NextGenId == GenIdAppend \/ GenIdReturn

SpecGenId == InitGenId /\ [][NextGenId]_vars

----------------------------------------------------------------------------
(* formatDate called on its own (src/src/types/index.ts:157-159): the      *)
(* clock moves on between calls, and each call is given a Date of the      *)
(* caller's choosing.                                                      *)

MaxFormatCalls == 3

\* the Dates formatDate is called with: the clock's, and the day before
Dates == Clock \cup {[sec |-> MockSec - 86400, ms |-> MockMs]}

InitFormatDate ==
    /\ env = EnvNames
    /\ pc = [i \in Invocations |-> "unused"]
    /\ input = [i \in Invocations |-> Undefined]
    /\ paymentId = [i \in Invocations |-> Undefined]
    /\ ledgerEntries = [i \in Invocations |-> << >>]
    /\ idObj = [i \in Invocations |-> InitialIdObj]
    /\ pending = [i \in Invocations |-> NoPending]
    /\ outcome = [i \in Invocations |-> Pending]
    /\ calls = << >>
    /\ returns = << >>
    /\ store = << >>
    /\ gen = NoGen
    /\ fmt = [now |-> [sec |-> MockSec, ms |-> MockMs], log |-> << >>]

\* a second passes
Tick ==
    /\ fmt.now.sec < MockSec + MaxTick
    /\ fmt' = [fmt EXCEPT !.now.sec = @ + 1]
    /\ UNCHANGED <<gen, env, pc, input, paymentId, ledgerEntries, idObj,
                   pending, outcome, calls, returns, store>>

\* formatDate(date), new Date() inside it reading the clock
FormatDate ==
    /\ Len(fmt.log) < MaxFormatCalls
    /\ \E date \in Dates :
           fmt' = [fmt EXCEPT !.log =
                      Append(@, [date |-> date, now |-> fmt.now,
                                 result |-> formatDate(date, fmt.now)])]
    /\ UNCHANGED <<gen, env, pc, input, paymentId, ledgerEntries, idObj,
                   pending, outcome, calls, returns, store>>

NextFormatDate == Tick \/ FormatDate

SpecFormatDate == InitFormatDate /\ [][NextFormatDate]_vars

----------------------------------------------------------------------------
(* What the properties below read off the state *)

\* the calls, requests and settlements of invocation i, in order
CallsBy(i) == SelectSeq(calls, LAMBDA c : c.by = i)
RequestsBy(i) == SelectSeq(store, LAMBDA q : q.by = i)
ReturnsBy(i) == SelectSeq(returns, LAMBDA r : r.by = i)

\* how often invocation i called the writer, and how often the writer's
\* request reached the store
NumCalls(i, writer) ==
    Cardinality({k \in 1..Len(calls) :
                    calls[k].by = i /\ calls[k].writer = writer})
NumWrites(i, writer) ==
    Cardinality({k \in 1..Len(store) :
                    store[k].by = i /\ store[k].writer = writer})

\* where in `calls` invocation i calls the writer
CallParams(i, writer) ==
    CHOOSE k \in 1..Len(calls) : calls[k].by = i /\ calls[k].writer = writer

\* the id the writer returned to invocation i
ReturnedId(i, writer) ==
    LET k == CHOOSE k \in 1..Len(returns) :
                 returns[k].by = i /\ returns[k].writer = writer /\ returns[k].ok
    IN  Get(returns[k].id)

\* the value of the named parameter of an executeStatement request
ParamValue(request, name) ==
    LET k == CHOOSE k \in 1..Len(request.parameters) :
                 request.parameters[k].name = name
    IN  request.parameters[k].value

Purchase(i) == Get(input[i]).userPurchaseInformation
Promotion(i) == Get(input[i]).promotionInformation

----------------------------------------------------------------------------
\* C1: a run that resolves has called insertFedNowPayment (and written the
\* SettlementPayment) exactly once if paymentMethod = FedNow, amount > 0 and
\* both account ids are present, and not at all otherwise.
C1_SettlementPaymentIff ==
    \A i \in Invocations :
        pc[i] = "resolved" =>
            LET n == IF /\ Purchase(i).paymentMethod = 0
                        /\ Purchase(i).amount > 0
                        /\ IsPresent(Purchase(i).payerAccountId)
                        /\ IsPresent(Purchase(i).payeeAccountId)
                     THEN 1 ELSE 0
            IN  /\ NumCalls(i, "insertFedNowPayment") = n
                /\ NumWrites(i, "insertFedNowPayment") = n

C1_Witness ==
    \E i \in Invocations :
        /\ pc[i] = "resolved"
        /\ Purchase(i).paymentMethod = 0
        /\ Purchase(i).amount > 0
        /\ NumWrites(i, "insertFedNowPayment") = 1

\* C2: a run that resolves has called insertPromotionLedgerEntry exactly once
\* if promoAmount is present and > 0, and not at all if it is absent or 0.
C2_PromotionLedgerEntryIff ==
    \A i \in Invocations :
        pc[i] = "resolved" =>
            LET n == IF /\ IsPresent(Promotion(i).promoAmount)
                        /\ Get(Promotion(i).promoAmount) > 0
                     THEN 1 ELSE 0
            IN  /\ NumCalls(i, "insertPromotionLedgerEntry") = n
                /\ NumWrites(i, "insertPromotionLedgerEntry") = n

C2_Witness ==
    \E i \in Invocations :
        /\ pc[i] = "resolved"
        /\ IsPresent(Promotion(i).promoAmount)
        /\ Get(Promotion(i).promoAmount) > 0
        /\ NumWrites(i, "insertPromotionLedgerEntry") = 1

\* C3: in a run that resolves, the ledgerEntries passed to
\* insertTransactionRecord are <<primary ledger id>> when no promotion entry
\* was written and <<primary ledger id, promotion ledger id>> when one was,
\* these being the ids insertLedgerEntry and insertPromotionLedgerEntry
\* returned in that run.
C3_LedgerEntriesInOrder ==
    \A i \in Invocations :
        pc[i] = "resolved" =>
            calls[CallParams(i, "insertTransactionRecord")].params.ledgerEntries
                = IF NumWrites(i, "insertPromotionLedgerEntry") = 0
                  THEN <<ReturnedId(i, "insertLedgerEntry")>>
                  ELSE <<ReturnedId(i, "insertLedgerEntry"),
                         ReturnedId(i, "insertPromotionLedgerEntry")>>

C3_Witness ==
    \E i \in Invocations :
        /\ pc[i] = "resolved"
        /\ NumWrites(i, "insertPromotionLedgerEntry") = 1
        /\ ReturnedId(i, "insertLedgerEntry")
               # ReturnedId(i, "insertPromotionLedgerEntry")
        /\ Len(calls[CallParams(i, "insertTransactionRecord")]
                   .params.ledgerEntries) = 2

\* the bundle input is invalid in one of the ways C4 lists
C4_Invalid(p) ==
    \/ Len(p.userPurchaseInformation.payerId) # 32
    \/ Len(p.userPurchaseInformation.payeeId) # 32
    \/ Len(p.userPurchaseInformation.developerId) # 32
    \/ p.userPurchaseInformation.amount < 0
    \/ p.userPurchaseInformation.paymentMethod \notin {0, 1}
    \/ /\ IsPresent(p.userPurchaseInformation.payerAccountId)
       /\ Len(Get(p.userPurchaseInformation.payerAccountId)) # 32
    \/ /\ IsPresent(p.userPurchaseInformation.payeeAccountId)
       /\ Len(Get(p.userPurchaseInformation.payeeAccountId)) # 32
    \/ /\ IsPresent(p.promotionInformation.promoAmount)
       /\ Get(p.promotionInformation.promoAmount) < 0
    \/ Len(p.sqlTransactionId) # 32

\* C4: invoked with an invalid bundle input, executeStandardPTOperations
\* rejects with a validation error and calls none of the five writers.
C4_InvalidInputNoWrites ==
    \A i \in Invocations :
        (IsPresent(input[i]) /\ C4_Invalid(Get(input[i]))) =>
            /\ outcome[i].state = "rejected"
            /\ outcome[i].error.name = "ZodError"
            /\ outcome[i].error.issues # << >>
            /\ CallsBy(i) = << >>
            /\ RequestsBy(i) = << >>

C4_Witness ==
    \E i \in Invocations :
        /\ IsPresent(input[i])
        /\ Get(input[i]).userPurchaseInformation.amount < 0
        /\ Get(input[i]).userPurchaseInformation.paymentMethod = 10
        /\ outcome[i].state = "rejected"
        /\ Len(outcome[i].error.issues) >= 2

\* C5: when the store fails the request of a writer, the invocation rejects
\* with the store's error, and the failing writer is the last one it calls.
C5_StoreErrorPropagates ==
    \A i \in Invocations :
        \A k \in 1..Len(returns) :
            (returns[k].by = i /\ returns[k].fromStore) =>
                /\ outcome[i].state = "rejected"
                /\ outcome[i].error = returns[k].error
                /\ CallsBy(i)[Len(CallsBy(i))].writer = returns[k].writer
                /\ Len(ReturnsBy(i)) = Len(CallsBy(i))
                /\ ReturnsBy(i)[Len(ReturnsBy(i))] = returns[k]
                /\ pending[i] = NoPending

C5_Witness ==
    \E i \in Invocations :
        \E k \in 1..Len(returns) :
            /\ returns[k].by = i
            /\ returns[k].fromStore
            /\ returns[k].writer = "insertLedgerEntry"
            /\ outcome[i].state = "rejected"
            /\ NumWrites(i, "insertFedNowPayment") = 1

\* the place of a writer in the order insertPayment, insertFedNowPayment,
\* insertLedgerEntry, insertPromotionLedgerEntry, insertTransactionRecord
C6_Rank(writer) ==
    CASE writer = "insertPayment" -> 1
      [] writer = "insertFedNowPayment" -> 2
      [] writer = "insertLedgerEntry" -> 3
      [] writer = "insertPromotionLedgerEntry" -> 4
      [] writer = "insertTransactionRecord" -> 5

C6_InOrder(log) ==
    /\ \A k \in 1..(Len(log) - 1) :
           C6_Rank(log[k].writer) < C6_Rank(log[k + 1].writer)
    /\ Len(log) > 0 => log[1].writer = "insertPayment"
    /\ \A k \in 1..Len(log) :
           log[k].writer = "insertTransactionRecord" =>
               /\ k = Len(log)
               /\ \E j \in 1..(k - 1) : log[j].writer = "insertLedgerEntry"

\* C6: the writer calls of a run, and the requests that reach the store, come
\* in the order insertPayment, [insertFedNowPayment], insertLedgerEntry,
\* [insertPromotionLedgerEntry], insertTransactionRecord: insertPayment is the
\* first, nothing follows insertTransactionRecord, and a run that resolves
\* ends with insertTransactionRecord.
C6_FixedWriteOrder ==
    \A i \in Invocations :
        /\ C6_InOrder(CallsBy(i))
        /\ C6_InOrder(RequestsBy(i))
        /\ pc[i] = "resolved" =>
               /\ CallsBy(i)[Len(CallsBy(i))].writer = "insertTransactionRecord"
               /\ RequestsBy(i)[Len(RequestsBy(i))].writer
                      = "insertTransactionRecord"

C6_Witness ==
    \E i \in Invocations :
        /\ pc[i] = "resolved"
        /\ Len(RequestsBy(i)) = 5
        /\ RequestsBy(i)[2].writer = "insertFedNowPayment"
        /\ RequestsBy(i)[4].writer = "insertPromotionLedgerEntry"

\* C7: the paymentStatus parameter of every Payment statement is COMPLETE (4)
\* if the params' paymentMethod is not FedNow or their amount is 0, and
\* PENDING (5) otherwise.
C7_PaymentStatus ==
    \A k \in 1..Len(store) :
        store[k].writer = "insertPayment" =>
            ParamValue(store[k].request, "paymentStatus").doubleValue
                = IF store[k].params.paymentMethod # 0
                     \/ store[k].params.amount = 0
                  THEN 4 ELSE 5

C7_Witness ==
    \E k \in 1..Len(store) :
        /\ store[k].writer = "insertPayment"
        /\ store[k].params.paymentMethod = 0
        /\ store[k].params.amount = 0
        /\ ParamValue(store[k].request, "paymentStatus").doubleValue = 4

\* C8: in every Payment statement, datePaid is null (isNull, no string value)
\* exactly when paymentStatus is PENDING, and is a timestamp string exactly
\* when paymentStatus is COMPLETE.
C8_DatePaidAgreesWithStatus ==
    \A k \in 1..Len(store) :
        store[k].writer = "insertPayment" =>
            LET datePaid == ParamValue(store[k].request, "datePaid")
                status ==
                    ParamValue(store[k].request, "paymentStatus").doubleValue
            IN  /\ status \in {4, 5}
                /\ (datePaid.isNull /\ ~IsPresent(datePaid.stringValue))
                       <=> status = 5
                /\ (~datePaid.isNull /\ IsPresent(datePaid.stringValue))
                       <=> status = 4
                /\ IsPresent(datePaid.stringValue) =>
                       /\ Len(Get(datePaid.stringValue)) = 19
                       /\ Get(datePaid.stringValue)[11] = " "

C8_Witness ==
    \E k \in 1..Len(store) :
        /\ store[k].writer = "insertPayment"
        /\ ParamValue(store[k].request, "datePaid").isNull
        /\ ParamValue(store[k].request, "paymentStatus").doubleValue = 5

\* C9: a run that resolves has made exactly one insertPayment, one
\* insertLedgerEntry and one insertTransactionRecord call; its writes are 3
\* plus one for a SettlementPayment plus one for a PromotionLedgerEntry; a
\* Card input without promotion gives exactly three writes.
C9_WriteCounts ==
    \A i \in Invocations :
        pc[i] = "resolved" =>
            /\ NumCalls(i, "insertPayment") = 1
            /\ NumCalls(i, "insertLedgerEntry") = 1
            /\ NumCalls(i, "insertTransactionRecord") = 1
            /\ NumCalls(i, "insertFedNowPayment") \in {0, 1}
            /\ NumCalls(i, "insertPromotionLedgerEntry") \in {0, 1}
            /\ Len(CallsBy(i)) = 3 + NumCalls(i, "insertFedNowPayment")
                                   + NumCalls(i, "insertPromotionLedgerEntry")
            /\ Len(RequestsBy(i)) = Len(CallsBy(i))
            /\ \A w \in {"insertPayment", "insertFedNowPayment",
                         "insertLedgerEntry", "insertPromotionLedgerEntry",
                         "insertTransactionRecord"} :
                   NumWrites(i, w) = NumCalls(i, w)
            /\ (/\ Purchase(i).paymentMethod = 1
                /\ ~IsPresent(Promotion(i).promoAmount)) =>
                   /\ Len(RequestsBy(i)) = 3
                   /\ NumCalls(i, "insertFedNowPayment") = 0
                   /\ NumCalls(i, "insertPromotionLedgerEntry") = 0

C9_Witness ==
    \E i \in Invocations :
        /\ pc[i] = "resolved"
        /\ Purchase(i).paymentMethod = 1
        /\ IsPresent(Purchase(i).payerAccountId)
        /\ IsPresent(Purchase(i).payeeAccountId)
        /\ ~IsPresent(Promotion(i).promoAmount)
        /\ Len(RequestsBy(i)) = 3

\* C10: every writer call of an invocation carries the sqlTransactionId of
\* the invocation's input, and every request a writer hands to the store has
\* the sqlTransactionId of the writer's params as its transactionId.
C10_OneTransactionScope ==
    /\ \A k \in 1..Len(calls) :
           calls[k].params.sqlTransactionId
               = Get(input[calls[k].by]).sqlTransactionId
    /\ \A k \in 1..Len(store) :
           store[k].request.transactionId = store[k].params.sqlTransactionId

C10_Witness ==
    \E i \in Invocations :
        /\ pc[i] = "resolved"
        /\ Len(RequestsBy(i)) = 5
        /\ \A k \in 1..Len(store) :
               store[k].request.transactionId = SQL_TRANSACTION_ID

\* C11: when an invocation resolves, the ids object it resolves with has
\* primaryPaymentID, customerLedgerEntryID and pursTransactionID non-null and
\* equal to the ids insertPayment, insertLedgerEntry and
\* insertTransactionRecord returned to it; it has primaryFedNowPaymentID
\* exactly when insertFedNowPayment was called, and promotionLedgerEntryID
\* exactly when insertPromotionLedgerEntry was called, each equal to the id
\* that writer returned.
C11_Has(r, key) == key \in DOMAIN r /\ r[key] # Null

C11_ResultCorrelation ==
    \A i \in Invocations :
        outcome[i].state = "resolved" =>
            LET r == Get(outcome[i].value)
            IN  /\ C11_Has(r, "primaryPaymentID")
                /\ r.primaryPaymentID = Some(ReturnedId(i, "insertPayment"))
                /\ C11_Has(r, "customerLedgerEntryID")
                /\ r.customerLedgerEntryID
                       = Some(ReturnedId(i, "insertLedgerEntry"))
                /\ C11_Has(r, "pursTransactionID")
                /\ r.pursTransactionID
                       = Some(ReturnedId(i, "insertTransactionRecord"))
                /\ C11_Has(r, "primaryFedNowPaymentID")
                       <=> NumCalls(i, "insertFedNowPayment") > 0
                /\ C11_Has(r, "primaryFedNowPaymentID") =>
                       r.primaryFedNowPaymentID
                           = Some(ReturnedId(i, "insertFedNowPayment"))
                /\ C11_Has(r, "promotionLedgerEntryID")
                       <=> NumCalls(i, "insertPromotionLedgerEntry") > 0
                /\ C11_Has(r, "promotionLedgerEntryID") =>
                       r.promotionLedgerEntryID
                           = Some(ReturnedId(i, "insertPromotionLedgerEntry"))

C11_Witness ==
    \E i \in Invocations :
        /\ outcome[i].state = "resolved"
        /\ C11_Has(Get(outcome[i].value), "primaryFedNowPaymentID")
        /\ C11_Has(Get(outcome[i].value), "promotionLedgerEntryID")
        /\ Get(outcome[i].value).primaryPaymentID
               # Get(outcome[i].value).customerLedgerEntryID

\* C12: every call of insertFedNowPayment passes as paymentId the id that
\* insertPayment returned to the same invocation, and as payerAccountId and
\* payeeAccountId those of the invocation's purchase input.
C12_SettlementPaymentParams ==
    \A k \in 1..Len(calls) :
        calls[k].writer = "insertFedNowPayment" =>
            /\ calls[k].params.paymentId
                   = ReturnedId(calls[k].by, "insertPayment")
            /\ Some(calls[k].params.payerAccountId)
                   = Purchase(calls[k].by).payerAccountId
            /\ Some(calls[k].params.payeeAccountId)
                   = Purchase(calls[k].by).payeeAccountId

C12_Witness ==
    \E i \in Invocations :
        /\ NumWrites(i, "insertFedNowPayment") = 1
        /\ Purchase(i).payerAccountId # Purchase(i).payeeAccountId

\* C13: the statement written for a promotion ledger entry has payerId equal
\* to the developerId of the purchase input, payeeId equal to the purchase's
\* payeeId, developerId equal to the purchase's developerId and amount equal
\* to promoAmount.
C13_PromotionLedgerEntryFields ==
    \A k \in 1..Len(store) :
        store[k].writer = "insertPromotionLedgerEntry" =>
            /\ ParamValue(store[k].request, "payerId")
                   = Blob(Purchase(store[k].by).developerId)
            /\ ParamValue(store[k].request, "payeeId")
                   = Blob(Purchase(store[k].by).payeeId)
            /\ ParamValue(store[k].request, "developerId")
                   = Blob(Purchase(store[k].by).developerId)
            /\ ParamValue(store[k].request, "amount")
                   = Double(Get(Promotion(store[k].by).promoAmount))

\* C14: the calls of insertPayment and of insertLedgerEntry carry the
\* payerId, payeeId, developerId, amount and interactionTypeId of the
\* purchase input unchanged, and the call of insertPayment its paymentMethod
\* as well.
C14_PaymentAndLedgerCarryPurchase ==
    \A k \in 1..Len(calls) :
        /\ calls[k].writer \in {"insertPayment", "insertLedgerEntry"} =>
               /\ calls[k].params.payerId = Purchase(calls[k].by).payerId
               /\ calls[k].params.payeeId = Purchase(calls[k].by).payeeId
               /\ calls[k].params.developerId
                      = Purchase(calls[k].by).developerId
               /\ calls[k].params.amount = Purchase(calls[k].by).amount
               /\ calls[k].params.interactionTypeId
                      = Purchase(calls[k].by).interactionTypeId
        /\ calls[k].writer = "insertPayment" =>
               calls[k].params.paymentMethod
                   = Purchase(calls[k].by).paymentMethod

C14_Witness ==
    \E i \in Invocations :
        /\ NumCalls(i, "insertPayment") = 1
        /\ NumCalls(i, "insertLedgerEntry") = 1
        /\ Purchase(i).amount > 0
        /\ Purchase(i).paymentMethod = FedNow

\* C15: an invocation that fails, at validation or at any writer, returns
\* no ids object: its promise is rejected and carries no value, whatever
\* ids it had collected by then; only a resolved invocation carries one.
C15_NoResultOnFailure ==
    \A i \in Invocations :
        /\ pc[i] = "rejected" =>
               /\ outcome[i].state = "rejected"
               /\ outcome[i].value = Undefined
        /\ (\E k \in 1..Len(returns) :
                returns[k].by = i /\ ~returns[k].ok) => pc[i] = "rejected"
        /\ (/\ IsPresent(input[i])
            /\ ExecuteStandardPTOperationsParamsSchema(Get(input[i])) # << >>)
               => pc[i] = "rejected"
        /\ IsPresent(outcome[i].value) => pc[i] = "resolved"

C15_Witness ==
    \E i \in Invocations :
        /\ pc[i] = "rejected"
        /\ idObj[i].primaryPaymentID # Null
        /\ idObj[i].customerLedgerEntryID # Null
        /\ outcome[i].value = Undefined

\* C16: validation of the bundle rejects a FedNow purchase input in which
\* payerAccountId or payeeAccountId is absent, so no writer is called for
\* it, while a Card input that is valid otherwise is accepted without them.
C16_FedNowRequiresAccountIds ==
    \A i \in Invocations :
        IsPresent(input[i]) =>
            /\ (/\ Purchase(i).paymentMethod = FedNow
                /\ \/ ~IsPresent(Purchase(i).payerAccountId)
                   \/ ~IsPresent(Purchase(i).payeeAccountId))
                   => /\ pc[i] = "rejected"
                      /\ Len(CallsBy(i)) = 0
            /\ (/\ Purchase(i).paymentMethod = Card
                /\ ~IsPresent(Purchase(i).payerAccountId)
                /\ ~IsPresent(Purchase(i).payeeAccountId)
                /\ ExecuteStandardPTOperationsParamsSchema(Get(input[i]))
                       = << >>)
                   => Len(CallsBy(i)) > 0

\* The issues the writer's own schema raises on the params it is called with
Issues(writer, params) ==
    CASE writer = "insertPayment" -> InsertPaymentParamsSchema(params)
      [] writer = "insertFedNowPayment" ->
             InsertFedNowPaymentParamsSchema(params)
      [] writer = "insertLedgerEntry" -> InsertLedgerEntryParamsSchema(params)
      [] writer = "insertPromotionLedgerEntry" ->
             InsertPromotionLedgerEntryParamsSchema(params)
      [] writer = "insertTransactionRecord" ->
             InsertTransactionRecordParamsSchema(params)

\* the request the writer called by invocation i handed to the store
RequestOf(i, writer) ==
    LET k == CHOOSE k \in 1..Len(store) :
                 store[k].by = i /\ store[k].writer = writer
    IN  store[k].request

\* the name of the parameter that holds the id of the record written
RecordIdName(writer) ==
    CASE writer = "insertPayment" -> "paymentId"
      [] writer = "insertFedNowPayment" -> "fedNowPaymentId"
      [] writer = "insertLedgerEntry" -> "ledgerId"
      [] writer = "insertPromotionLedgerEntry" -> "ledgerId"
      [] writer = "insertTransactionRecord" -> "transactionId"

\* C17, as stated: a writer called with params that pass its validation
\* makes exactly one store call, and one called with params that fail it
\* makes none; no request reaches the store before the params are validated.
C17_OneStoreCallIffValid ==
    /\ \A k \in 1..Len(calls) :
           NumWrites(calls[k].by, calls[k].writer)
               = IF Issues(calls[k].writer, calls[k].params) = << >>
                 THEN 1 ELSE 0
    /\ \A k \in 1..Len(store) :
           Issues(store[k].writer, store[k].params) = << >>

\* C17, amended: a writer called with params that pass its validation makes
\* exactly one store call when DATABASE, SECRET_ARN and CLUSTER_ARN are all
\* set and none when one of them is not; a writer called with params that
\* fail validation makes none and rejects with the validation error, whatever
\* the environment; no request reaches the store before the params are
\* validated.
C17_OneStoreCallIffValidAndConfigured ==
    /\ \A k \in 1..Len(calls) :
           /\ NumWrites(calls[k].by, calls[k].writer)
                  = IF /\ Issues(calls[k].writer, calls[k].params) = << >>
                       /\ env = EnvNames
                    THEN 1 ELSE 0
           /\ Issues(calls[k].writer, calls[k].params) # << >> =>
                  \E j \in 1..Len(returns) :
                      /\ returns[j].by = calls[k].by
                      /\ returns[j].writer = calls[k].writer
                      /\ ~returns[j].ok
                      /\ returns[j].error
                             = ZodError(Issues(calls[k].writer,
                                               calls[k].params))
    /\ \A k \in 1..Len(store) :
           Issues(store[k].writer, store[k].params) = << >>

C17_Witness ==
    \E k \in 1..Len(calls) :
        /\ env = EnvNames
        /\ Issues(calls[k].writer, calls[k].params) # << >>
        /\ calls[k].writer = "insertLedgerEntry"
        /\ pc[calls[k].by] = "rejected"
        /\ Len(store) = 0

\* C18: when the store rejects a writer's request, the writer rejects with
\* the store's error itself, the request stays the writer's only one, and no
\* id is returned.
C18_StoreFailureRejectsWriter ==
    \A k \in 1..Len(returns) :
        returns[k].fromStore =>
            /\ ~returns[k].ok
            /\ returns[k].id = Undefined
            /\ returns[k].cause \in StoreErrors
            /\ returns[k].error = returns[k].cause
            /\ NumWrites(returns[k].by, returns[k].writer) = 1
            /\ pc[returns[k].by] = "rejected"
            /\ outcome[returns[k].by].value = Undefined
            /\ outcome[returns[k].by].error = returns[k].cause

C18_Witness ==
    \E k \in 1..Len(returns) :
        /\ returns[k].fromStore
        /\ returns[k].writer = "insertTransactionRecord"
        /\ returns[k].cause = Error("Connection lost")
        /\ Len(store) = 1

\* C19: the id a writer returns is the one genId(32) gave it in that call,
\* and the statement it issued holds that id, decoded from hex, as its
\* record-id parameter (paymentId, fedNowPaymentId, ledgerId); the batch of
\* insertTransactionRecord holds it as transactionId in every parameter set.
C19_ReturnsGeneratedId ==
    \A k \in 1..Len(returns) :
        returns[k].ok =>
            LET id == Get(returns[k].id)
                q == RequestOf(returns[k].by, returns[k].writer)
            IN  /\ \E random \in RandomRuns(IdLength) :
                       id = genId(IdLength, random)
                /\ Len(id) = IdLength
                /\ outcome[returns[k].by].value = Some(id)
                /\ IF returns[k].writer = "insertTransactionRecord"
                   THEN \A j \in 1..Len(q.parameterSets) :
                            \E n \in 1..Len(q.parameterSets[j]) :
                                q.parameterSets[j][n]
                                    = Param("transactionId", Blob(id))
                   ELSE ParamValue(q, RecordIdName(returns[k].writer))
                            = Blob(id)

C19_Witness ==
    \E k \in 1..Len(returns) :
        /\ returns[k].ok
        /\ returns[k].writer = "insertFedNowPayment"
        /\ returns[k].id # Some(calls[1].params.paymentId)
        /\ pc[returns[k].by] = "resolved"

\* C20: the batch insertTransactionRecord issues has one parameter set per
\* element of ledgerEntries, in the order of ledgerEntries, and the i-th set
\* pairs the one new transaction id with the i-th ledger id.
C20_BatchPairsEachLedgerEntry ==
    \A k \in 1..Len(store) :
        store[k].writer = "insertTransactionRecord" =>
            LET sets == store[k].request.parameterSets
                entries == store[k].params.ledgerEntries
            IN  /\ Len(sets) = Len(entries)
                /\ \E random \in RandomRuns(IdLength) :
                       \A j \in 1..Len(entries) :
                           sets[j] = <<Param("transactionId",
                                             Blob(genId(IdLength, random))),
                                       Param("ledgerId", Blob(entries[j]))>>
                /\ pending[store[k].by].writer = "insertTransactionRecord" =>
                       \A j \in 1..Len(entries) :
                           sets[j][1].value = Blob(pending[store[k].by].id)

C20_Witness ==
    \E k \in 1..Len(store) :
        /\ store[k].writer = "insertTransactionRecord"
        /\ Len(store[k].params.ledgerEntries) = MaxLedgerEntries
        /\ store[k].params.ledgerEntries[1] # store[k].params.ledgerEntries[2]
        /\ Len(store[k].request.parameterSets) = MaxLedgerEntries

\* The fields of each writer's params in the order its schema declares them
C21_Fields(writer) ==
    CASE writer = "insertPayment" ->
             <<"payerId", "payeeId", "developerId", "amount",
               "interactionTypeId", "paymentMethod", "sqlTransactionId">>
      [] writer = "insertFedNowPayment" ->
             <<"paymentId", "payerAccountId", "payeeAccountId",
               "sqlTransactionId">>
      [] writer = "insertLedgerEntry" ->
             <<"payerId", "payeeId", "developerId", "amount",
               "interactionTypeId", "sqlTransactionId">>
      [] writer = "insertPromotionLedgerEntry" ->
             <<"developerId", "payerId", "payeeId", "promoAmount",
               "interactionTypeId", "sqlTransactionId">>
      [] writer = "insertTransactionRecord" ->
             <<"ledgerEntries", "sqlTransactionId">>

\* The field breaks the rule the writer's schema declares for it
C21_Offending(writer, params, field) ==
    CASE field \in {"payerId", "payeeId", "developerId", "paymentId",
                    "payerAccountId", "payeeAccountId"} ->
             Len(params[field]) # IdLength
      [] field = "sqlTransactionId" ->
             writer # "insertLedgerEntry" /\ Len(params[field]) # IdLength
      [] field = "amount" -> writer = "insertPayment" /\ params[field] < 0
      [] field = "promoAmount" -> params[field] < 0
      [] field = "paymentMethod" -> params[field] \notin {FedNow, Card}
      [] field = "ledgerEntries" -> Len(params[field]) = 0
      [] field = "interactionTypeId" -> FALSE

\* The offending fields of the params, in declaration order
C21_OffendingFields(writer, params) ==
    SelectSeq(C21_Fields(writer),
              LAMBDA field : C21_Offending(writer, params, field))

\* C21: a writer called with params in which several fields are invalid
\* rejects with a validation error whose issue list has exactly one entry
\* for every offending field, in the order the schema declares the fields,
\* and no entry for a valid field.
C21_ValidationIsTotal ==
    \A k \in 1..Len(calls) :
        /\ C21_OffendingFields(calls[k].writer, calls[k].params) = << >> =>
            \A j \in 1..Len(returns) :
                (returns[j].by = calls[k].by
                    /\ returns[j].writer = calls[k].writer)
                    => returns[j].error.name # "ZodError"
        /\ C21_OffendingFields(calls[k].writer, calls[k].params) # << >> =>
            \E j \in 1..Len(returns) :
                /\ returns[j].by = calls[k].by
                /\ returns[j].writer = calls[k].writer
                /\ ~returns[j].ok
                /\ returns[j].error.name = "ZodError"
                /\ [n \in 1..Len(returns[j].error.issues) |->
                       returns[j].error.issues[n].path]
                   = [n \in 1..Len(C21_OffendingFields(calls[k].writer,
                                                       calls[k].params)) |->
                         <<C21_OffendingFields(calls[k].writer,
                                               calls[k].params)[n]>>]

C21_Witness ==
    \E j \in 1..Len(returns) :
        /\ returns[j].writer = "insertPayment"
        /\ returns[j].error.name = "ZodError"
        /\ Len(returns[j].error.issues) = 4
        /\ returns[j].error.issues[1].path = <<"payeeId">>
        /\ returns[j].error.issues[4].path = <<"sqlTransactionId">>

\* C22: for every length 0, 1, 2, ... genId(length) returns a string of
\* exactly length characters, each one of 0-9 and a-f in lower case;
\* genId(0) returns the empty string.  What the loop returns is what
\* genId(length, random) gives for the digits the loop drew.
C22_GenIdLengthAndAlphabet ==
    /\ Len(gen.result) = gen.i
    /\ IsPresent(gen.returned) =>
           /\ Len(Get(gen.returned)) = gen.length
           /\ \A k \in 1..Len(Get(gen.returned)) :
                  Get(gen.returned)[k]
                      \in {"0", "1", "2", "3", "4", "5", "6", "7", "8", "9",
                           "a", "b", "c", "d", "e", "f"}
           /\ gen.length = 0 => Get(gen.returned) = << >>
           /\ Get(gen.returned) = genId(gen.length, gen.random)

C22_Witness ==
    /\ IsPresent(gen.returned)
    /\ gen.length = MaxGenIdLength
    /\ Get(gen.returned)[1] = "f"
    /\ Get(gen.returned)[2] = "0"

\* The writers of the requests of invocation i, in the order issued
WritesOf(i) == [k \in 1..Len(RequestsBy(i)) |-> RequestsBy(i)[k].writer]

\* C23: of two invocations with identical valid input that both resolve,
\* each has issued the full write sequence by itself: the second issues the
\* same writes as the first, none is left out because the first had made it,
\* and the ids the writers return are none of the input's ids.
C23_NotIdempotent ==
    \A i \in Invocations, j \in Invocations :
        (/\ i # j
         /\ pc[i] = "resolved"
         /\ pc[j] = "resolved"
         /\ input[i] = input[j]) =>
            /\ WritesOf(i) = WritesOf(j)
            /\ WritesOf(i) = <<"insertPayment", "insertFedNowPayment",
                               "insertLedgerEntry", "insertTransactionRecord">>
            /\ Len(store) = Len(RequestsBy(i)) + Len(RequestsBy(j))
            /\ \A k \in 1..Len(returns) :
                   returns[k].ok =>
                       Get(returns[k].id)
                           \notin {Purchase(i).payerId, Purchase(i).payeeId,
                                   Purchase(i).developerId,
                                   Get(Purchase(i).payerAccountId),
                                   Get(Purchase(i).payeeAccountId),
                                   Get(input[i]).sqlTransactionId}

C23_Witness ==
    /\ pc[1] = "resolved"
    /\ pc[2] = "resolved"
    /\ input[1] = input[2]
    /\ Len(store) = 8
    /\ store[4].by = 1
    /\ store[5].by = 2
    /\ \A w \in {"insertPayment", "insertFedNowPayment", "insertLedgerEntry",
                 "insertTransactionRecord"} :
           ReturnedId(1, w) # ReturnedId(2, w)

\* C27: with two invocations interleaved in any order, every call of
\* insertTransactionRecord carries exactly the ledger ids returned to the
\* invocation that makes it, every call of insertFedNowPayment the payment
\* id returned to the invocation that makes it, and every id in the object
\* an invocation resolves with was returned to that invocation.
C27_NoSharedState ==
    /\ \A k \in 1..Len(calls) :
           /\ calls[k].writer = "insertTransactionRecord" =>
                  calls[k].params.ledgerEntries
                      = <<ReturnedId(calls[k].by, "insertLedgerEntry")>>
                        \o IF NumCalls(calls[k].by,
                                       "insertPromotionLedgerEntry") > 0
                           THEN <<ReturnedId(calls[k].by,
                                             "insertPromotionLedgerEntry")>>
                           ELSE << >>
           /\ calls[k].writer = "insertFedNowPayment" =>
                  calls[k].params.paymentId
                      = ReturnedId(calls[k].by, "insertPayment")
    /\ \A i \in Invocations :
           /\ \A n \in 1..Len(ledgerEntries[i]) :
                  \E k \in 1..Len(returns) :
                      /\ returns[k].by = i
                      /\ returns[k].id = Some(ledgerEntries[i][n])
           /\ outcome[i].state = "resolved" =>
                  \A key \in DOMAIN Get(outcome[i].value) :
                      \E k \in 1..Len(returns) :
                          /\ returns[k].by = i
                          /\ returns[k].ok
                          /\ returns[k].id = Get(outcome[i].value)[key]

C27_Witness ==
    /\ pc[1] = "resolved"
    /\ pc[2] = "resolved"
    /\ Len(store) = 8
    /\ \A k \in 1..7 : store[k].by # store[k + 1].by
    /\ ReturnedId(1, "insertLedgerEntry") # ReturnedId(2, "insertLedgerEntry")
    /\ ReturnedId(1, "insertPayment") # ReturnedId(2, "insertPayment")

\* C24: no writer called by executeStandardPTOperations rejects the params
\* it is passed: every call carries params the writer's own schema accepts,
\* and no writer's rejection is a validation error, so a validation error
\* comes only from the bundle's own parse, before the first write.
C24_ValidationOnlyBeforeFirstWrite ==
    /\ \A k \in 1..Len(calls) :
           Issues(calls[k].writer, calls[k].params) = << >>
    /\ \A k \in 1..Len(returns) :
           returns[k].error.name # "ZodError"
    /\ \A i \in Invocations :
           outcome[i].error.name = "ZodError" => Len(CallsBy(i)) = 0

C24_Witness ==
    \E i \in Invocations :
        /\ pc[i] = "resolved"
        /\ Len(CallsBy(i)) = 5
        /\ Purchase(i).payerId = NON_HEX_ID
        /\ Purchase(i).amount = MaxAmount

\* C25: in every invocation that resolves, the Payment statement has status
\* PENDING and a null datePaid if and only if a FedNow payment is written by
\* the same invocation.
C25_PendingIffSettlementPayment ==
    \A i \in Invocations :
        pc[i] = "resolved" =>
            ((/\ ParamValue(RequestOf(i, "insertPayment"), "paymentStatus")
                    = Double(PENDING)
              /\ ParamValue(RequestOf(i, "insertPayment"), "datePaid").isNull)
                <=> NumWrites(i, "insertFedNowPayment") = 1)

\* The requests of invocation i before its last one
EarlierWrites(i) == SubSeq(WritesOf(i), 1, Len(WritesOf(i)) - 1)

\* C26: when a write of an invocation fails, the requests the invocation has
\* issued are the writes that succeeded, in order, followed by the one that
\* failed; all of them are inserts; no request ever leaves the log of
\* requests or changes in it, and a rejected invocation issues no further
\* request of any kind.
C26_NoRollback ==
    /\ [](\A k \in 1..Len(returns) :
             returns[k].fromStore =>
                 /\ Len(RequestsBy(returns[k].by)) > 0
                 /\ WritesOf(returns[k].by)[Len(WritesOf(returns[k].by))]
                        = returns[k].writer
                 /\ EarlierWrites(returns[k].by)
                        = [n \in 1..Len(EarlierWrites(returns[k].by)) |->
                              SelectSeq(ReturnsBy(returns[k].by),
                                        LAMBDA r : r.ok)[n].writer]
                 /\ \A n \in 1..Len(RequestsBy(returns[k].by)) :
                        RequestsBy(returns[k].by)[n].request.sql = "INSERT ...")
    /\ [][/\ Len(store') >= Len(store)
           /\ SubSeq(store', 1, Len(store)) = store
           /\ \A i \in Invocations :
                  pc[i] = "rejected" =>
                      /\ pc'[i] = "rejected"
                      /\ \A k \in (Len(store) + 1)..Len(store') :
                             store'[k].by # i]_vars

C26_Witness ==
    \E i \in Invocations :
        /\ pc[i] = "rejected"
        /\ outcome[i].error = Error("Database operation failed")
        /\ WritesOf(i) = <<"insertPayment", "insertFedNowPayment",
                           "insertLedgerEntry", "insertPromotionLedgerEntry">>
        /\ Len(SelectSeq(ReturnsBy(i), LAMBDA r : r.ok)) = 3

\* The requests of invocation i that the store has not answered yet
Outstanding(i) ==
    Len(RequestsBy(i))
        - Len(SelectSeq(ReturnsBy(i), LAMBDA r : r.ok \/ r.fromStore))

\* C28: an invocation has at most one request outstanding at the store at
\* any time: a writer is called only when the writer before it has returned,
\* and the request outstanding is that of the writer the invocation awaits.
C28_StrictlySequential ==
    \A i \in Invocations :
        /\ Outstanding(i) \in {0, 1}
        /\ Outstanding(i) = 1 <=> IsWriter(pc[i])
        /\ IsWriter(pc[i]) =>
               /\ pending[i].writer = pc[i]
               /\ WritesOf(i)[Len(WritesOf(i))] = pc[i]
               /\ EarlierWrites(i)
                      = [n \in 1..Len(EarlierWrites(i)) |->
                            ReturnsBy(i)[n].writer]

C28_Witness ==
    \E i \in Invocations :
        /\ pc[i] = "insertTransactionRecord"
        /\ Len(RequestsBy(i)) = 5
        /\ Len(ReturnsBy(i)) = 4
        /\ Outstanding(i) = 1

\* exactly 32 characters, each a hexadecimal digit
IsHex32(s) == Len(s) = IdLength /\ \A k \in 1..Len(s) : IsHexChar(s[k])

\* C29: an input in which payerId, payeeId, developerId or sqlTransactionId
\* is not 32 hexadecimal characters is rejected by validation, no writer
\* being called, and every id a writer turns into a blob is hexadecimal.
C29_IdsAreHex ==
    /\ \A i \in Invocations :
           (/\ IsPresent(input[i])
            /\ \/ ~IsHex32(Purchase(i).payerId)
               \/ ~IsHex32(Purchase(i).payeeId)
               \/ ~IsHex32(Purchase(i).developerId)
               \/ ~IsHex32(Get(input[i]).sqlTransactionId))
               => /\ pc[i] = "rejected"
                  /\ Len(CallsBy(i)) = 0
    /\ \A k \in 1..Len(store) :
           store[k].writer \in {"insertPayment", "insertLedgerEntry",
                                "insertPromotionLedgerEntry"} =>
               /\ IsHex32(store[k].params.payerId)
               /\ IsHex32(store[k].params.payeeId)
               /\ IsHex32(store[k].params.developerId)

\* C30: every Payment, LedgerEntry and PromotionLedgerEntry statement that
\* reaches the store, whatever params the writer was called with, carries
\* an amount that is not negative.
C30_AmountsNonNegative ==
    \A k \in 1..Len(store) :
        /\ store[k].writer = "insertPayment" =>
               ParamValue(store[k].request, "paymentAmount").doubleValue >= 0
        /\ store[k].writer \in {"insertLedgerEntry",
                                 "insertPromotionLedgerEntry"} =>
               ParamValue(store[k].request, "amount").doubleValue >= 0

----------------------------------------------------------------------------
\* The ids of the ledger entry's params whose length is not 32, in the order
\* payerId, payeeId, developerId
C31_BadIds(params) ==
    SelectSeq(<<"payerId", "payeeId", "developerId">>,
              LAMBDA field : Len(params[field]) # IdLength)

\* the settlements of the writer's call by invocation i
C31_Settled(i, writer) ==
    SelectSeq(returns, LAMBDA s : s.by = i /\ s.writer = writer)

\* C31: insertLedgerEntry's validation reports a violation exactly for each
\* of payerId, payeeId and developerId whose length is not 32, in that
\* order; a negative amount and an sqlTransactionId that is not 32
\* characters long are never reported, so params with only those defects
\* pass validation and, the environment being set, reach the store as given.
C31_LedgerEntryViolations ==
    \A k \in 1..Len(calls) :
        calls[k].writer = "insertLedgerEntry" =>
            LET bad == C31_BadIds(calls[k].params)
                settled == C31_Settled(calls[k].by, "insertLedgerEntry")
            IN  /\ bad # << >> =>
                    /\ Len(settled) = 1
                    /\ settled[1].error.name = "ZodError"
                    /\ [n \in 1..Len(settled[1].error.issues) |->
                           settled[1].error.issues[n].path]
                       = [n \in 1..Len(bad) |-> <<bad[n]>>]
                /\ bad = << >> =>
                    /\ \A n \in 1..Len(settled) :
                           settled[n].error.name # "ZodError"
                    /\ env = EnvNames =>
                        \E j \in 1..Len(store) :
                            /\ store[j].by = calls[k].by
                            /\ store[j].writer = "insertLedgerEntry"
                            /\ ParamValue(store[j].request, "amount").doubleValue
                               = calls[k].params.amount
                            /\ store[j].request.transactionId
                               = calls[k].params.sqlTransactionId

\* A ledger entry whose only defects are the amount -1 and a short
\* sqlTransactionId is with the store
C31_Witness ==
    \E j \in 1..Len(store) :
        /\ store[j].writer = "insertLedgerEntry"
        /\ C31_BadIds(store[j].params) = << >>
        /\ store[j].params.amount = -1
        /\ store[j].params.sqlTransactionId = INVALID
        /\ ParamValue(store[j].request, "amount").doubleValue = -1
        /\ C31_Settled(store[j].by, "insertLedgerEntry") = << >>

----------------------------------------------------------------------------
\* C32: insertTransactionRecord called with an empty ledgerEntries list
\* rejects with a validation error on ledgerEntries, having drawn no
\* transaction id and handed no batch to the store; so every batch with the
\* store has at least one parameter set, and executeStandardPTOperations
\* never calls insertTransactionRecord with an empty list.
C32_EmptyLedgerEntriesRejected ==
    /\ \A k \in 1..Len(calls) :
           (/\ calls[k].writer = "insertTransactionRecord"
            /\ calls[k].params.ledgerEntries = << >>) =>
               LET settled == C31_Settled(calls[k].by,
                                          "insertTransactionRecord")
               IN  /\ Len(settled) = 1
                   /\ ~settled[1].ok
                   /\ settled[1].error.name = "ZodError"
                   /\ settled[1].error.issues[1].path = <<"ledgerEntries">>
                   /\ settled[1].generated = Undefined
                   /\ NumWrites(calls[k].by, "insertTransactionRecord") = 0
    /\ \A k \in 1..Len(store) :
           store[k].writer = "insertTransactionRecord" =>
               /\ store[k].request.operation = "batchExecuteStatement"
               /\ Len(store[k].request.parameterSets) >= 1
    /\ \A k \in 1..Len(calls) :
           (/\ calls[k].writer = "insertTransactionRecord"
            /\ IsPresent(input[calls[k].by])) =>
               Len(calls[k].params.ledgerEntries) >= 1

\* insertTransactionRecord has been called with an empty list and has
\* rejected
C32_Witness ==
    \E k \in 1..Len(calls), j \in 1..Len(returns) :
        /\ calls[k].writer = "insertTransactionRecord"
        /\ calls[k].params.ledgerEntries = << >>
        /\ calls[k].params.sqlTransactionId = SQL_TRANSACTION_ID
        /\ env = EnvNames
        /\ returns[j].by = calls[k].by
        /\ returns[j].writer = "insertTransactionRecord"
        /\ returns[j].error.name = "ZodError"
        /\ returns[j].generated = Undefined
        /\ store = << >>

----------------------------------------------------------------------------
\* 'YYYY-MM-DD HH:MM:SS' of a Date
C33_Rendering(date) == Replace(Slice(ToISOString(date), 0, 19), "T", " ")

\* C33: formatDate(date) returns the 'YYYY-MM-DD HH:MM:SS' rendering of the
\* Date it is given: two calls at the same moment with dates of different
\* seconds give different results, and two calls with the same date at
\* different moments give the same result.
C33_FormatsItsArgument ==
    /\ \A k \in 1..Len(fmt.log) :
           fmt.log[k].result = C33_Rendering(fmt.log[k].date)
    /\ \A j, k \in 1..Len(fmt.log) :
           /\ (fmt.log[j].now = fmt.log[k].now
               /\ fmt.log[j].date.sec # fmt.log[k].date.sec)
                  => fmt.log[j].result # fmt.log[k].result
           /\ (fmt.log[j].date = fmt.log[k].date
               /\ fmt.log[j].now # fmt.log[k].now)
                  => fmt.log[j].result = fmt.log[k].result

----------------------------------------------------------------------------
\* C34: with every store call answered in the end, an invocation of
\* executeStandardPTOperations that has begun comes to an end: it resolves
\* with the ids object or rejects with an error, and stays so.  At no point
\* has it called more than five writers or any writer twice.
C34_Terminates ==
    /\ [](\A i \in Invocations :
             /\ Len(CallsBy(i)) <= 5
             /\ \A k \in 1..Len(Writers) : NumCalls(i, Writers[k]) <= 1
             /\ pc[i] = "resolved" =>
                    /\ outcome[i].state = "resolved"
                    /\ outcome[i].value = Some(idObj[i])
                    /\ outcome[i].error = NoError
             /\ pc[i] = "rejected" =>
                    /\ outcome[i].state = "rejected"
                    /\ outcome[i].error # NoError)
    /\ [][\A i \in Invocations :
              pc[i] \in {"resolved", "rejected"} =>
                  /\ pc'[i] = pc[i]
                  /\ outcome'[i] = outcome[i]]_vars
    /\ \A i \in Invocations :
           (pc[i] \notin {"ready", "unused"})
               ~> (pc[i] \in {"resolved", "rejected"})

\* An invocation has resolved after five writer calls
C34_Witness ==
    \E i \in Invocations :
        /\ pc[i] = "resolved"
        /\ outcome[i].state = "resolved"
        /\ Len(CallsBy(i)) = 5
        /\ \A k \in 1..Len(Writers) : NumCalls(i, Writers[k]) = 1

----------------------------------------------------------------------------
\* the ids the writers returned to invocation i, in the order of the calls
C35_GeneratedIds(i) ==
    [n \in 1..Len(SelectSeq(ReturnsBy(i), LAMBDA r : r.ok)) |->
        Get(SelectSeq(ReturnsBy(i), LAMBDA r : r.ok)[n].id)]

\* no element of the sequence occurs in it twice
C35_NoDuplicates(s) ==
    \A j, k \in 1..Len(s) : j # k => s[j] # s[k]

\* C35: in a bundle that resolved, the ledger ids handed to
\* insertTransactionRecord hold no id twice (the promotion ledger id is not
\* the primary ledger id), no ledger id occurs twice in the batch that
\* reached the store, and the ids the writers generated for the bundle are
\* pairwise distinct.
C35_IdsPairwiseDistinct ==
    \A i \in Invocations :
        pc[i] = "resolved" =>
            /\ C35_NoDuplicates(
                   calls[CallParams(i, "insertTransactionRecord")]
                       .params.ledgerEntries)
            /\ C35_NoDuplicates(
                   [n \in 1..Len(RequestOf(i, "insertTransactionRecord")
                                     .parameterSets) |->
                       RequestOf(i, "insertTransactionRecord")
                           .parameterSets[n][2]])
            /\ C35_NoDuplicates(C35_GeneratedIds(i))

----------------------------------------------------------------------------
\* The first of the variables a writer reads, in the order it reads them,
\* that is not set
C36_FirstUnset ==
    IF "DATABASE" \notin env THEN "DATABASE"
    ELSE IF "SECRET_ARN" \notin env THEN "SECRET_ARN"
    ELSE "CLUSTER_ARN"

\* C36: getEnvVariable(name) returns the value of a variable that is set
\* and throws 'Environment variable <name> not set' for one that is not; a
\* writer called with valid params while DATABASE, SECRET_ARN or CLUSTER_ARN
\* is not set rejects with that error, for the first of them it reads, and
\* hands nothing to the store.
C36_UnsetVariableFailsWriter ==
    /\ \A name \in EnvNames :
           /\ name \in env =>
                  /\ ~getEnvVariable(name).threw
                  /\ getEnvVariable(name).value = EnvValue(name)
           /\ name \notin env =>
                  /\ getEnvVariable(name).threw
                  /\ getEnvVariable(name).error.name = "Error"
                  /\ getEnvVariable(name).error.message
                         = "Environment variable " \o name \o " not set"
    /\ \A k \in 1..Len(calls) :
           (/\ Issues(calls[k].writer, calls[k].params) = << >>
            /\ env # EnvNames) =>
               LET settled == C31_Settled(calls[k].by, calls[k].writer)
               IN  /\ Len(settled) = 1
                   /\ ~settled[1].ok
                   /\ ~settled[1].fromStore
                   /\ settled[1].error.name = "Error"
                   /\ settled[1].error.message
                          = "Environment variable " \o C36_FirstUnset
                                \o " not set"
                   /\ NumWrites(calls[k].by, calls[k].writer) = 0
                   /\ store = << >>

\* insertPayment called with valid params while SECRET_ARN alone is not set
\* has rejected
C36_Witness ==
    \E k \in 1..Len(calls), j \in 1..Len(returns) :
        /\ env = EnvNames \ {"SECRET_ARN"}
        /\ calls[k].writer = "insertPayment"
        /\ Issues("insertPayment", calls[k].params) = << >>
        /\ returns[j].by = calls[k].by
        /\ returns[j].writer = "insertPayment"
        /\ returns[j].error.message
               = "Environment variable SECRET_ARN not set"
        /\ pc[calls[k].by] = "rejected"
        /\ store = << >>

====
